---------------------------- MODULE Spec2Model ----------------------------
(***************************************************************************)
(* A model of blobfish's bfsrv: the resource ledger (ledger.rs and the     *)
(* user/node/capability rows it reads and writes) and the transcription    *)
(* session (server/transcribe.rs, infsrv_pool.rs).                         *)
(*                                                                         *)
(* The store is PostgreSQL.  A REPEATABLE READ transaction reads from the  *)
(* snapshot taken at its first statement and an UPDATE of a row that a     *)
(* concurrent transaction changed and committed after that snapshot fails  *)
(* with a serialization failure.  A transaction is two steps here: the     *)
(* step that takes the snapshot and reads, and the step that writes and    *)
(* commits (or fails).  Every row a transaction read is kept in tx[a],     *)
(* with one flag per row telling whether another commit changed the row    *)
(* since.                                                                  *)
(***************************************************************************)
EXTENDS Integers, Sequences, FiniteSets, TLC

(***************************************************************************)
(* Bounds of the model.                                                    *)
(***************************************************************************)
\* Number of callers of the ledger that run concurrently.
MaxAllocs == 2
\* Largest debt the debiter is run up to.
MaxDebt == 4
\* Samples the ring buffer holds: (MAX_SEGMENT_DURATION * SAMPLE_RATE) as usize,
\* 480000 in the source, scaled down.
RING_BUFFER_CAPACITY == 2
\* Capacity of the channels of a session, channel(32) in the source, scaled down.
CHANNEL_CAPACITY == 1
\* Times are counted in units of 1/TimeUnitsPerSample of a sample period, so
\* that a time need not fall on a sample.
TimeUnitsPerSample == 2
\* Segments the worker sends in a session.
MaxSegments == 2

(***************************************************************************)
(* Program constants.                                                      *)
(***************************************************************************)
\* Ledger::allocate: let mut remains = 10
AllocateAttempts == 10
\* Allocation::deallocate: let mut remains = 10000
DeallocateAttempts == 10000

(***************************************************************************)
(* The rows of the store that the ledger only reads.                       *)
(***************************************************************************)
Users == {"u1", "u2"}
\* The balances users start with: in debt, exactly zero, in credit.
Balances == {-1, 0, 1}
\* The debiter is not run on a user whose debt would pass MaxDebt.
LowestBalance == -MaxDebt
Nodes == {"n1", "n2"}
TaskTypes == {"Segment", "Transcribe"}
Tariffs == {"basic"}
Capabilities == {"vad", "whisper", "lang"}
Slots == 1..MaxAllocs
\* The Allocation handles: those of the callers, and in a session the one of
\* the segmenter and one for each transcribe call.
Handles == 1..(IF MaxAllocs > MaxSegments THEN MaxAllocs ELSE MaxSegments + 1)

\* capability rows: compute_load, memory_load, fee
Capability ==
  [ vad     |-> [compute_load |-> 1, memory_load |-> 1, fee |-> 1],
    whisper |-> [compute_load |-> 1, memory_load |-> 0, fee |-> 1],
    lang    |-> [compute_load |-> 1, memory_load |-> 1, fee |-> 1] ]

\* task_type_tariff_capability rows
find_with_task_type_and_tariff(task_type, tariff) ==
  IF tariff # "basic" THEN {}
  ELSE IF task_type = "Segment" THEN {"vad"} ELSE {"whisper", "lang"}

\* node_capability rows
NodeCapability == [ n1 |-> {"vad", "whisper", "lang"}, n2 |-> {"vad"} ]

\* node rows: compute_capacity, memory_capacity
NodeCapacity ==
  [ n1 |-> [compute_capacity |-> 2, memory_capacity |-> 2],
    n2 |-> [compute_capacity |-> 2, memory_capacity |-> 1] ]

RECURSIVE SumOver(_, _)
\* Sum of f[x] over the finite set S.
SumOver(S, f) ==
  IF S = {} THEN 0
  ELSE LET x == CHOOSE y \in S : TRUE IN f[x] + SumOver(S \ {x}, f)

\* Ledger::allocate: the fold of (compute, memory, fee) over the capabilities.
Aggregate(caps) ==
  [ compute |-> SumOver(caps, [c \in caps |-> Capability[c].compute_load]),
    memory  |-> SumOver(caps, [c \in caps |-> Capability[c].memory_load]),
    fee     |-> SumOver(caps, [c \in caps |-> Capability[c].fee]) ]

\* Decimal::is_sign_positive: the sign bit is clear, which it is for zero.
is_sign_positive(d) == d >= 0

VARIABLES
  balance,        \* "user".balance, per user
  allocated_fee,  \* "user".allocated_fee, per user
  compute_load,   \* node.compute_load, per node (the stored i32)
  memory_load,    \* node.memory_load, per node (the stored i32)
  pc,             \* where each Allocation handle is in its life
  req,            \* per handle: user, task type, tariff of the allocate call
  alloc,          \* per handle: node, compute, memory, fee (the Allocation)
  remains,        \* per handle: attempts left in the running retry loop
  tx,             \* per handle: the rows its open transaction read
  err,            \* per handle: the error allocate or deallocate returned
  effect,         \* per handle: what its commits changed in the store, summed
  ticked,         \* the last step was a tick of the debiter
  \* The transcription session (its segmenter allocation is handle 1).
  client,         \* the client socket: "open" or "closed"
  audio_left,     \* samples the client has still to send
  flags,          \* of the last message the client sent: it ends with the
                  \* terminator (delim), its packet ends the Ogg stream (eos)
  pkt_chan,       \* the channel packet-reader task -> processor: the messages queued
  r_pc,           \* the packet-reader task: where it is
  r_msg,          \* the message the packet-reader task is sending to the processor
  p_pc,           \* AudioStreamProcessor::process: where it is
  resampled_len,  \* self.resampled.len() of the buffer being metered
  offset,         \* process_audio_buffer: offset
  chunk_len,      \* process_audio_buffer: chunk_len of the slice pushed last
  pcm,            \* process_audio_buffer: pcm, the bytes of the slice pushed last
  pushed,         \* RingBuffer::pushed
  deque,          \* RingBuffer::deque: the samples retained, oldest first
  deque_capacity, \* RingBuffer::deque.capacity() (0: no deque yet)
  stream,         \* the samples pushed over the life of the ring buffer, in order
  frames_consumed,\* process: frames_consumed
  pcm_chan,       \* the channel processor -> uplink: the messages queued
  u_pc,           \* the uplink task: where it is
  u_msg,          \* the message the uplink is sending to the worker
  poll_due,       \* the uplink's 5 s interval has fired and was not yet taken
  w_pc,           \* the worker socket: "idle", "open", "unread" (open, the downlink task gone) or "closed"
  worker_received,\* samples the worker has read
  worker_heard,   \* the bytes the worker has read, in order
  w_last_end,     \* end of the last segment the worker sent
  w_emitted,      \* segments the worker has sent
  seg_chan,       \* the channel downlink -> dispatcher: the segments queued
  w_speech,       \* the Speech segments the worker has sent, in order
  d_pc,           \* process_segments: where it is
  limit_chan,     \* the meter channel dispatcher -> processor: the ends queued
  d_seg,          \* process_segments: (begin, end) of the segment under transcription
  wav_blob,       \* process_segments: the clip, as the samples it holds
  item,           \* process_segments: item, the Option<TranscribeItem> it retains
  prompts,        \* the prompts of the transcribe calls made, in order (0: none)
  records,        \* the records sent to the client, in order
  client_sink,    \* client_sender: "open" or "closed"
  \* The request of the client, or a function called on its own.
  call,           \* the handler or function and its arguments
  ret             \* what it returned

\* The function called on its own and its result.
fvars == << call, ret >>

\* The store and the Allocation handles.
ledger_vars == << balance, allocated_fee, compute_load, memory_load, pc, req, alloc,
                  remains, tx, err, effect, ticked >>

lvars == << ledger_vars, fvars >>

svars == << client, audio_left, flags, pkt_chan, r_pc, r_msg, p_pc, resampled_len, offset, chunk_len, pcm, pushed,
            deque, deque_capacity, stream, frames_consumed, pcm_chan, u_pc, u_msg, poll_due,
            w_pc, worker_received, worker_heard, w_last_end, w_emitted, w_speech, seg_chan,
            d_pc, limit_chan, d_seg, wav_blob, item, prompts, records,
            client_sink >>

\* The locals of process_segments and what it has sent.
dvars == << d_seg, wav_blob, item, prompts, records, client_sink >>

vars == << lvars, svars >>

NoReq == [user |-> "none", task_type |-> "none", tariff |-> "none"]
NoAlloc == [node |-> "none", capabilities |-> {}, compute |-> 0, memory |-> 0, fee |-> 0]
NoTx == [balance |-> 0, allocated_fee |-> 0, compute_load |-> 0, memory_load |-> 0,
         dirty_user |-> FALSE, dirty_node |-> FALSE]
NoSeg == [begin |-> 0, end |-> 0]
NoClip == [first |-> 0, last |-> 0]
\* Option<TranscribeItem>: None, and Some(item).  A text is named by the
\* number of the transcribe call that returned it, from 1.
None == [some |-> FALSE, begin |-> 0, end |-> 0, text |-> 0]
Some(it) == [some |-> TRUE, begin |-> it.begin, end |-> it.end, text |-> it.text]
NoEffect == [compute |-> [n \in Nodes |-> 0], memory |-> [n \in Nodes |-> 0],
             fee |-> [u \in Users |-> 0]]

\* No function is called on its own.
NoCall == [fn |-> "none"]
NoRet == [returned |-> "nothing"]

\* main.rs create_pg_pool: loads and allocated fees are cleared at start-up;
\* no session has begun.
Start ==
  /\ balance \in [Users -> Balances]
  /\ balance["u1"] >= balance["u2"]   \* the other half only swaps the names
  /\ allocated_fee = [u \in Users |-> 0]
  /\ compute_load = [n \in Nodes |-> 0]
  /\ memory_load = [n \in Nodes |-> 0]
  /\ pc = [a \in Handles |-> "idle"]
  /\ req = [a \in Handles |-> NoReq]
  /\ alloc = [a \in Handles |-> NoAlloc]
  /\ remains = [a \in Handles |-> 0]
  /\ tx = [a \in Handles |-> NoTx]
  /\ err = [a \in Handles |-> "none"]
  /\ effect = [a \in Handles |-> NoEffect]
  /\ ticked = FALSE
  /\ client = "open"
  /\ audio_left = RING_BUFFER_CAPACITY + 1
  /\ flags = [delim |-> FALSE, eos |-> FALSE]
  /\ pkt_chan = << >>
  /\ r_pc = "idle"
  /\ r_msg = 0
  /\ p_pc = "idle"
  /\ resampled_len = 0
  /\ offset = 0
  /\ chunk_len = 0
  /\ pushed = 0
  /\ deque = << >>
  /\ stream = << >>
  /\ pcm = << >>
  /\ worker_heard = << >>
  /\ frames_consumed = 0
  /\ pcm_chan = << >>
  /\ u_pc = "idle"
  /\ u_msg = << >>
  /\ poll_due = FALSE
  /\ w_pc = "idle"
  /\ worker_received = 0
  /\ w_last_end = 0
  /\ w_emitted = 0
  /\ seg_chan = << >>
  /\ w_speech = << >>
  /\ d_pc = "idle"
  /\ limit_chan = << >>
  /\ d_seg = NoSeg
  /\ wav_blob = NoClip
  /\ item = None
  /\ prompts = << >>
  /\ records = << >>
  /\ client_sink = "open"

\* The server has started: no ring buffer exists and no function is called
\* on its own.
Init ==
  /\ Start
  /\ deque_capacity = 0
  /\ call = NoCall
  /\ ret = NoRet

(***************************************************************************)
(* Helpers of the handles.                                                 *)
(***************************************************************************)
\* The handle's transaction is open: it has read and not yet written.
InTx(a) == pc[a] \in {"alloc_tx", "dealloc_tx"}

\* The allocate transaction of the handle committed and its release did not:
\* the allocation is live in the store.
Holding(a) == pc[a] \in {"live", "dropped", "dealloc_tx", "dealloc_failed"}

\* A commit by `writer` that rewrote user row u and node row n: every other
\* open transaction that read one of them can no longer update it.
MarkDirty(writer, users, n) ==
  [b \in Handles |->
     IF b # writer /\ InTx(b)
     THEN [tx[b] EXCEPT !.dirty_user = @ \/ req[b].user \in users,
                        !.dirty_node = @ \/ alloc[b].node = n]
     ELSE IF b = writer THEN NoTx ELSE tx[b]]

\* As under READ COMMITTED: no update fails, the stale row is written back.
NoSerializationFailure(t) == FALSE

\* The row update of a transaction fails with T_R_SERIALIZATION_FAILURE.
SerializationFailure(t) == t.dirty_node \/ t.dirty_user

\* The query without its condition on the remaining compute.
find_one_ignoring_compute(capabilities, compute, memory) ==
  { n \in Nodes :
      /\ capabilities # {}
      /\ capabilities \subseteq NodeCapability[n]
      /\ NodeCapacity[n].memory_capacity - memory_load[n] >= memory }

\* The query without its join on the capabilities.
find_one_ignoring_capabilities(capabilities, compute, memory) ==
  { n \in Nodes :
      /\ NodeCapacity[n].compute_capacity - compute_load[n] >= compute
      /\ NodeCapacity[n].memory_capacity - memory_load[n] >= memory }

\* Node::find_one_with_available_resources: the nodes the query may return.
find_one_with_available_resources(capabilities, compute, memory) ==
  { n \in Nodes :
      /\ capabilities # {}
      /\ capabilities \subseteq NodeCapability[n]
      /\ NodeCapacity[n].compute_capacity - compute_load[n] >= compute
      /\ NodeCapacity[n].memory_capacity - memory_load[n] >= memory }

\* The increment with the memory taken from the compute.
AllocatedNodeMemoryFromCompute(nd, compute, memory) ==
  [compute_load |-> nd.compute_load + compute, memory_load |-> nd.memory_load + compute]

\* try_allocate_atomically: node.compute_load += compute; node.memory_load += memory
AllocatedNode(nd, compute, memory) ==
  [compute_load |-> nd.compute_load + compute, memory_load |-> nd.memory_load + memory]

\* The decrement that forgets the memory.
DeallocatedNodeKeepsMemory(nd, compute, memory) ==
  [compute_load |-> nd.compute_load - compute, memory_load |-> nd.memory_load]

\* The decrement made twice.
DeallocatedNodeTwice(nd, compute, memory) ==
  [compute_load |-> nd.compute_load - 2 * compute, memory_load |-> nd.memory_load - 2 * memory]

\* try_deallocate_atomically: node.compute_load -= compute; node.memory_load -= memory
DeallocatedNode(nd, compute, memory) ==
  [compute_load |-> nd.compute_load - compute, memory_load |-> nd.memory_load - memory]

\* User::update: the columns the UPDATE sets, from the fields of the struct.
\* The statement sets created_at and balance; allocated_fee is not among them.
UserUpdate(row, user) == [row EXCEPT !.balance = user.balance]

\* The user row as the store holds it.
UserRow(u) == [balance |-> balance[u], allocated_fee |-> allocated_fee[u]]

(***************************************************************************)
(* Ledger::allocate                                                        *)
(***************************************************************************)
\* The call: fetch the capabilities, fold them, start the retry loop.
\* A caller whose allocate returned an error holds no Allocation and may
\* call again.  Callers start in order, which only names them.
Allocate(a, u, task_type, tariff) ==
  /\ ticked' = FALSE
  /\ pc[a] \in {"idle", "alloc_failed"}
  /\ \A b \in Slots : b < a => pc[b] # "idle"
  /\ LET caps == find_with_task_type_and_tariff(task_type, tariff)
         agg == Aggregate(caps)
     IN alloc' = [alloc EXCEPT ![a] = [node |-> "none", capabilities |-> caps,
                                       compute |-> agg.compute, memory |-> agg.memory,
                                       fee |-> agg.fee]]
  /\ req' = [req EXCEPT ![a] = [user |-> u, task_type |-> task_type, tariff |-> tariff]]
  /\ remains' = [remains EXCEPT ![a] = AllocateAttempts]
  /\ pc' = [pc EXCEPT ![a] = "allocating"]
  /\ err' = [err EXCEPT ![a] = "none"]
  /\ UNCHANGED << balance, allocated_fee, compute_load, memory_load, tx, effect >>

\* The loop that returns the error of its first failed attempt.
AllocateGivesUp(a, error) ==
  /\ remains' = [remains EXCEPT ![a] = @ - 1]
  /\ pc' = [pc EXCEPT ![a] = "alloc_failed"]
  /\ err' = [err EXCEPT ![a] = error]

\* The retry loop of allocate after an attempt that failed with `error`.
AllocateRetry(a, error) ==
  /\ remains' = [remains EXCEPT ![a] = @ - 1]
  /\ IF remains[a] - 1 = 0
     THEN /\ pc' = [pc EXCEPT ![a] = "alloc_failed"]
          /\ err' = [err EXCEPT ![a] = error]
     ELSE /\ pc' = [pc EXCEPT ![a] = "allocating"]
          /\ err' = err

\* One attempt, up to the reads: the transaction starts, loads the user,
\* checks the balance and picks a node.
TryAllocateRead(a) ==
  /\ ticked' = FALSE
  /\ UNCHANGED fvars
  /\ pc[a] = "allocating"
  /\ LET u == req[a].user IN
     IF u \notin Users
     THEN /\ pc' = [pc EXCEPT ![a] = "alloc_failed"]
          /\ err' = [err EXCEPT ![a] = "UserNotFound"]
          /\ UNCHANGED << alloc, remains, tx >>
     ELSE IF ~is_sign_positive(balance[u])
     THEN /\ pc' = [pc EXCEPT ![a] = "alloc_failed"]
          /\ err' = [err EXCEPT ![a] = "NotEnoughBalance"]
          /\ UNCHANGED << alloc, remains, tx >>
     ELSE LET found == find_one_with_available_resources(
                         alloc[a].capabilities, alloc[a].compute, alloc[a].memory)
          IN IF found = {}
             THEN /\ AllocateRetry(a, "NotEnoughResources")
                  /\ UNCHANGED << alloc, tx >>
             ELSE \E n \in found :
                    /\ alloc' = [alloc EXCEPT ![a].node = n]
                    /\ tx' = [tx EXCEPT ![a] =
                                [balance |-> balance[u],
                                 allocated_fee |-> allocated_fee[u],
                                 compute_load |-> compute_load[n],
                                 memory_load |-> memory_load[n],
                                 dirty_user |-> FALSE, dirty_node |-> FALSE]]
                    /\ pc' = [pc EXCEPT ![a] = "alloc_tx"]
                    /\ UNCHANGED << remains, err >>
  /\ UNCHANGED << balance, allocated_fee, compute_load, memory_load, req, effect >>

\* The rest of the attempt: node.update, user.update, commit.
TryAllocateCommit(a) ==
  /\ ticked' = FALSE
  /\ UNCHANGED fvars
  /\ pc[a] = "alloc_tx"
  /\ LET u == req[a].user
         n == alloc[a].node
         t == tx[a]
     IN IF SerializationFailure(t)
        THEN /\ AllocateRetry(a, "SerializationFailure")
             /\ tx' = [tx EXCEPT ![a] = NoTx]
             /\ alloc' = [alloc EXCEPT ![a].node = "none"]
             /\ UNCHANGED << balance, allocated_fee, compute_load, memory_load, effect >>
        ELSE LET nd == AllocatedNode(t, alloc[a].compute, alloc[a].memory)
                 us == UserUpdate(UserRow(u),
                                  [balance |-> t.balance,
                                   allocated_fee |-> t.allocated_fee + alloc[a].fee])
             IN /\ compute_load' = [compute_load EXCEPT ![n] = nd.compute_load]
                /\ memory_load' = [memory_load EXCEPT ![n] = nd.memory_load]
                /\ balance' = [balance EXCEPT ![u] = us.balance]
                /\ allocated_fee' = [allocated_fee EXCEPT ![u] = us.allocated_fee]
                /\ effect' = [effect EXCEPT
                     ![a].compute[n] = @ + nd.compute_load - compute_load[n],
                     ![a].memory[n] = @ + nd.memory_load - memory_load[n],
                     ![a].fee[u] = @ + us.allocated_fee - allocated_fee[u]]
                /\ tx' = MarkDirty(a, {u}, n)
                /\ pc' = [pc EXCEPT ![a] = "live"]
                /\ remains' = [remains EXCEPT ![a] = 0]   \* the loop's local is gone
                /\ UNCHANGED << alloc, err >>
  /\ UNCHANGED << req >>

(***************************************************************************)
(* Allocation: drop and the detached release task                          *)
(***************************************************************************)
\* The handle is forgotten and its release never spawned.
DropLeaks(a) ==
  /\ ticked' = FALSE
  /\ pc[a] = "live"
  /\ UNCHANGED << balance, allocated_fee, compute_load, memory_load, pc, req, alloc,
                  remains, tx, err, effect >>

\* impl Drop for Allocation: spawn deallocate and return.
Drop(a) ==
  /\ ticked' = FALSE
  /\ pc[a] = "live"
  /\ pc' = [pc EXCEPT ![a] = "dropped"]
  /\ remains' = [remains EXCEPT ![a] = DeallocateAttempts]
  /\ UNCHANGED << balance, allocated_fee, compute_load, memory_load, req, alloc,
                  tx, err, effect >>

\* One release attempt, up to the reads: Node::get and User::get see the
\* snapshot of the transaction.
TryDeallocateRead(a) ==
  /\ ticked' = FALSE
  /\ UNCHANGED fvars
  /\ pc[a] = "dropped"
  /\ LET u == req[a].user
         n == alloc[a].node
     IN IF n \notin Nodes
        THEN /\ pc' = [pc EXCEPT ![a] = "dealloc_failed"]
             /\ err' = [err EXCEPT ![a] = "NodeNotFound"]
             /\ tx' = tx
        ELSE IF u \notin Users
        THEN /\ pc' = [pc EXCEPT ![a] = "dealloc_failed"]
             /\ err' = [err EXCEPT ![a] = "UserNotFound"]
             /\ tx' = tx
        ELSE /\ tx' = [tx EXCEPT ![a] =
                         [balance |-> balance[u],
                          allocated_fee |-> allocated_fee[u],
                          compute_load |-> compute_load[n],
                          memory_load |-> memory_load[n],
                          dirty_user |-> FALSE, dirty_node |-> FALSE]]
             /\ pc' = [pc EXCEPT ![a] = "dealloc_tx"]
             /\ err' = err
  /\ UNCHANGED << balance, allocated_fee, compute_load, memory_load, req, alloc,
                  remains, effect >>

\* deallocate without its loop: the first failed attempt ends the release.
TryDeallocateOnce(a) ==
  /\ ticked' = FALSE
  /\ UNCHANGED fvars
  /\ pc[a] = "dealloc_tx"
  /\ SerializationFailure(tx[a])
  /\ pc' = [pc EXCEPT ![a] = "dealloc_failed"]
  /\ err' = [err EXCEPT ![a] = "SerializationFailure"]
  /\ tx' = [tx EXCEPT ![a] = NoTx]
  /\ UNCHANGED << balance, allocated_fee, compute_load, memory_load, effect, remains,
                  req, alloc >>

\* The rest of the attempt and the retry loop of deallocate.  The loads are
\* u32 in the handle and i32 in the store: a subtraction below zero panics in
\* a build with overflow checks (the task dies, nothing is committed) and
\* wraps otherwise, and the wrapped u32 is stored as the negative i32.
TryDeallocateCommit(a) ==
  /\ ticked' = FALSE
  /\ UNCHANGED fvars
  /\ pc[a] = "dealloc_tx"
  /\ LET u == req[a].user
         n == alloc[a].node
         t == tx[a]
         nd == DeallocatedNode(t, alloc[a].compute, alloc[a].memory)
         us == UserUpdate(UserRow(u),
                          [balance |-> t.balance,
                           allocated_fee |-> t.allocated_fee - alloc[a].fee])
         builds == IF nd.compute_load < 0 \/ nd.memory_load < 0
                   THEN {"wraps", "panics"} ELSE {"wraps"}
     IN IF SerializationFailure(t)
        THEN /\ remains' = [remains EXCEPT ![a] = @ - 1]
             /\ IF remains[a] - 1 = 0
                THEN /\ pc' = [pc EXCEPT ![a] = "dealloc_failed"]
                     /\ err' = [err EXCEPT ![a] = "SerializationFailure"]
                ELSE /\ pc' = [pc EXCEPT ![a] = "dropped"]
                     /\ err' = err
             /\ tx' = [tx EXCEPT ![a] = NoTx]
             /\ UNCHANGED << balance, allocated_fee, compute_load, memory_load, effect >>
        ELSE \E build \in builds :
             IF build = "panics"
             THEN /\ pc' = [pc EXCEPT ![a] = "dealloc_failed"]
                  /\ err' = [err EXCEPT ![a] = "Panic"]
                  /\ tx' = [tx EXCEPT ![a] = NoTx]
                  /\ UNCHANGED << balance, allocated_fee, compute_load, memory_load,
                                  effect, remains >>
             ELSE /\ compute_load' = [compute_load EXCEPT ![n] = nd.compute_load]
                  /\ memory_load' = [memory_load EXCEPT ![n] = nd.memory_load]
                  /\ balance' = [balance EXCEPT ![u] = us.balance]
                  /\ allocated_fee' = [allocated_fee EXCEPT ![u] = us.allocated_fee]
                  /\ effect' = [effect EXCEPT
                       ![a].compute[n] = @ + nd.compute_load - compute_load[n],
                       ![a].memory[n] = @ + nd.memory_load - memory_load[n],
                       ![a].fee[u] = @ + us.allocated_fee - allocated_fee[u]]
                  /\ tx' = MarkDirty(a, {u}, n)
                  /\ pc' = [pc EXCEPT ![a] = "released"]
                  /\ remains' = [remains EXCEPT ![a] = 0]   \* the loop's local is gone
                  /\ err' = err
  /\ UNCHANGED << req, alloc >>

\* deallocate when the pool or the store answers with an error that is not
\* a serialization failure: `?` and `return Err(err)` end the release, the
\* open transaction is dropped and nothing is committed.
TryDeallocateError(a) ==
  /\ ticked' = FALSE
  /\ UNCHANGED fvars
  /\ pc[a] \in {"dropped", "dealloc_tx"}
  /\ pc' = [pc EXCEPT ![a] = "dealloc_failed"]
  /\ err' = [err EXCEPT ![a] = "Postgres"]
  /\ tx' = [tx EXCEPT ![a] = NoTx]
  /\ UNCHANGED << balance, allocated_fee, compute_load, memory_load, effect, remains,
                  req, alloc >>

(***************************************************************************)
(* The balance debiter                                                     *)
(***************************************************************************)
\* User::update_balances: UPDATE "user" SET balance = balance - allocated_fee
\* WHERE allocated_fee > 0, one statement in its own transaction.
update_balances ==
  LET hit == { u \in Users : allocated_fee[u] > 0 } IN
  /\ \A u \in hit : balance[u] - allocated_fee[u] >= LowestBalance
  /\ ticked' = TRUE
  /\ UNCHANGED fvars
  /\ balance' = [u \in Users |->
                   IF u \in hit THEN balance[u] - allocated_fee[u] ELSE balance[u]]
  /\ tx' = [b \in Handles |->
              IF InTx(b) THEN [tx[b] EXCEPT !.dirty_user = @ \/ req[b].user \in hit]
              ELSE tx[b]]
  /\ UNCHANGED << allocated_fee, compute_load, memory_load, pc, req, alloc,
                  remains, err, effect >>

\* The ledger under concurrent callers.
Next ==
  \/ \E a \in Slots, u \in Users, k \in TaskTypes, f \in Tariffs :
        Allocate(a, u, k, f) /\ UNCHANGED << svars, fvars >>
  \/ \E a \in Slots : TryAllocateRead(a) /\ UNCHANGED svars
  \/ \E a \in Slots : TryAllocateCommit(a) /\ UNCHANGED svars
  \/ \E a \in Slots : Drop(a) /\ UNCHANGED << svars, fvars >>
  \/ \E a \in Slots : TryDeallocateRead(a) /\ UNCHANGED svars
  \/ \E a \in Slots : TryDeallocateCommit(a) /\ UNCHANGED svars
  \/ update_balances /\ UNCHANGED svars

Spec == Init /\ [][Next]_vars

\* The ledger when the store may refuse a statement of a release.
\* The release task spawned by a drop is scheduled by the runtime and its
\* statements are answered by the store: an attempt that can take its next
\* step takes it.  Nothing is assumed of the callers nor of the debiter.
ReleaseNext ==
  \/ Next
  \/ \E a \in Slots : TryDeallocateError(a) /\ UNCHANGED svars

FairRelease ==
  /\ Init /\ [][ReleaseNext]_vars
  /\ \A a \in Slots : /\ WF_vars(TryDeallocateRead(a) /\ UNCHANGED svars)
                      /\ WF_vars(TryDeallocateCommit(a) /\ UNCHANGED svars)

(***************************************************************************)
(* The transcription session: handle_transcribe, InfsrvPool::segment,      *)
(* ws_callback, AudioStreamProcessor, process_segments.  Handle 1 is the   *)
(* segmenter allocation of the session.                                    *)
(***************************************************************************)
Session == 1

\* The sample after the one a time falls in.
ToFramesPastEnd(time) == time \div TimeUnitsPerSample + 1

\* (time * SAMPLE_RATE) as usize: the sample a time falls in, rounded down.
ToFrames(time) == time \div TimeUnitsPerSample

\* The latest end a segment may carry: the end of the client's audio.
MaxEnd == (RING_BUFFER_CAPACITY + 1) * TimeUnitsPerSample

\* The samples the client has streamed.
Streamed == (RING_BUFFER_CAPACITY + 1) - audio_left

\* The k-th sample of the client's audio as the resampler yields it, an f32
\* counted in halves of 1 / i16::MAX: a sample with two different bytes, one
\* below zero, one beyond full scale, and one that rounds to 0.
AudioSample(k) == << 516, -3, 65540, 1 >>[((k - 1) % 4) + 1]

RECURSIVE Queued(_)
\* The samples of the messages queued in a channel.
Queued(chan) == IF chan = << >> THEN 0 ELSE Head(chan) + Queued(Tail(chan))

\* self.resampled: the samples of the buffer being metered, those of the
\* client's audio after the buffers read before.
resampled ==
  LET base == Streamed - Queued(pkt_chan) - r_msg - resampled_len
  IN [j \in 1..resampled_len |-> AudioSample(base + j)]

\* (*f32_sample * i16::MAX as f32) as i16: the cast truncates towards zero
\* and saturates.
ToI16(f32_sample) ==
  LET scaled == IF f32_sample >= 0 THEN f32_sample \div 2 ELSE -((-f32_sample) \div 2)
  IN IF scaled > 32767 THEN 32767 ELSE IF scaled < -32768 THEN -32768 ELSE scaled

\* The bytes of the sample, the high byte first.
to_be_bytes(sample) ==
  LET u == IF sample < 0 THEN sample + 65536 ELSE sample
  IN << u \div 256, u % 256 >>

\* i16::to_le_bytes
to_le_bytes(sample) ==
  LET u == IF sample < 0 THEN sample + 65536 ELSE sample
  IN << u % 256, u \div 256 >>

\* The bytes of a slice of samples, as the loop of process_audio_buffer
\* appends them to pcm.
PcmOf(slice) ==
  [j \in 1..(2 * Len(slice)) |-> to_le_bytes(slice[(j + 1) \div 2])[2 - (j % 2)]]

\* VecDeque::with_capacity(capacity) holds at least `capacity` elements:
\* what capacity() then returns depends on the standard library of the build.
Capacities == {RING_BUFFER_CAPACITY, RING_BUFFER_CAPACITY + 1}

\* self.deque.len()
deque_len == Len(deque)

\* RingBuffer::push, on the deque.
push(dq, capacity, sample) ==
  Append(IF Len(dq) = capacity THEN Tail(dq) ELSE dq, sample)

RECURSIVE PushAll(_, _, _)
\* The pushes of a slice, one sample after the other.
PushAll(dq, capacity, slice) ==
  IF slice = << >> THEN dq
  ELSE PushAll(push(dq, capacity, Head(slice)), capacity, Tail(slice))

\* Allocation::check_invalidated
check_invalidated(a) ==
  IF req[a].user \notin Users THEN "UserNotFound"
  ELSE ~is_sign_positive(balance[req[a].user])

\* The processor holds its ends of the channels (infsrv_sender, limit_receiver).
ProcessorAlive == p_pc \in {"read", "meter", "wait", "send", "delim", "join"}
\* The uplink task runs: it holds the receiver of the PCM channel and the Allocation.
UplinkAlive == u_pc \in {"select", "sending", "closing"}
\* process_segments runs: it holds limit_sender and the receiver of the segments.
DispatcherAlive == d_pc \in {"recv", "transcribing"}

\* The slice with the head-room taken from the watermark alone.
HeadRoomWithoutPushed(cap, p, consumed, rest) ==
  IF cap - (0 - consumed) < rest THEN cap - (0 - consumed) ELSE rest

\* process_audio_buffer: chunk_len =
\*   (RING_BUFFER_CAPACITY - (pushed - *frames_consumed)).min(resampled.len() - offset)
\* in usize arithmetic that wraps (twice, when frames_consumed > pushed).
ChunkLen(cap, p, consumed, rest) ==
  IF p - consumed > cap THEN rest
  ELSE IF cap - (p - consumed) < rest THEN cap - (p - consumed) ELSE rest

\* The subtractions of the head-room that overflow usize.
HeadRoomOverflows(cap, p, consumed) == consumed > p \/ p - consumed > cap

\* InfsrvPool::segment: the ledger call of the session.
SegmentAllocate(u, tariff) ==
  /\ Allocate(Session, u, "Segment", tariff)
  /\ u_pc = "idle"
  /\ UNCHANGED svars

VORBIS_CONTENT_TYPE == "audio/ogg; codecs=vorbis"

\* The Content-Type headers of a request: none, the supported one and others.
ContentTypes ==
  { << >>, << VORBIS_CONTENT_TYPE >>, << "audio/ogg" >>, << "audio/ogg;codecs=vorbis" >>,
    << "Audio/Ogg; Codecs=Vorbis" >> }

\* The tariffs of a request: one with capabilities and one without.
QueryTariffs == Tariffs \cup {"premium"}

\* The terminator a request asks for.
Delim == << 255, 254 >>

\* A request that lets the header pass when it is missing.
UnsupportedWhenPresent(content_type) ==
  content_type # << >> /\ content_type # << VORBIS_CONTENT_TYPE >>

\* handle_transcribe: headers.get(CONTENT_TYPE) !=
\*   Some(&HeaderValue::from_static(VORBIS_CONTENT_TYPE))
UnsupportedContentType(content_type) == content_type # << VORBIS_CONTENT_TYPE >>

\* handle_transcribe, up to the result of InfsrvPool::segment: the request of
\* an authorized user with its Content-Type header (none: << >>), the tariff
\* of its query and its terminator header (none: << >>).
handle_transcribe(u, content_type, tariff, terminator) ==
  /\ u_pc = "idle"
  /\ pc[Session] \in {"idle", "alloc_failed"}
  /\ call' = [fn |-> "handle_transcribe", content_type |-> content_type,
              tariff |-> tariff, terminator |-> terminator]
  /\ IF UnsupportedContentType(content_type)
     THEN /\ ret' = [returned |-> "BadRequest"]
          /\ UNCHANGED << ledger_vars, svars >>
     ELSE /\ ret' = NoRet
          /\ SegmentAllocate(u, tariff)

\* The terminator of the session: terminator.as_deref()
Terminator == IF call.fn = "handle_transcribe" THEN call.terminator ELSE << >>

\* Error::status of what handle_transcribe returns.
status(error) ==
  IF error = "BadRequest" THEN 400
  ELSE IF error = "NotEnoughBalance" THEN 402
  ELSE IF error = "UserNotFound" THEN 404
  ELSE IF error = "NotEnoughResources" THEN 429
  ELSE 500

\* InfsrvPool::segment after allocate: connect_async to the worker.  On
\* success the uplink and downlink tasks are spawned and ws_callback starts
\* the dispatcher and the processor; on failure the `?` returns the error,
\* Error::Tungstanite, and the Allocation is dropped.
Connect(ok) ==
  /\ pc[Session] = "live"
  /\ u_pc = "idle"
  /\ IF ok
     THEN /\ u_pc' = "select"
          /\ w_pc' = "open"
          /\ d_pc' = "recv"
          /\ p_pc' = "read"
          /\ r_pc' = "recv"
          /\ deque_capacity' \in Capacities
          /\ UNCHANGED lvars
     ELSE /\ Drop(Session)
          /\ call' = call
          /\ ret' = [returned |-> "Tungstanite"]
          /\ u_pc' = "closed"
          /\ UNCHANGED << w_pc, d_pc, p_pc, r_pc, deque_capacity >>
  /\ UNCHANGED << dvars, client, audio_left, flags, pkt_chan, r_msg, resampled_len, offset, chunk_len, pcm, pushed,
                  deque, stream, frames_consumed, pcm_chan, u_msg, poll_due, worker_received, worker_heard, w_last_end, w_emitted, w_speech, seg_chan,
                  limit_chan >>

\* The processor has not returned: it holds packet_reader, the receiver of
\* the channel of the packet-reader task.
ReaderHeard == p_pc \notin {"done", "panicked"}

\* create_packet_reader: the task reads a Binary message of the client, n
\* samples of audio, and sends it on; the send waits while the channel is
\* full and fails once the processor is gone.
\* The message ends with the terminator (delim) or not, and its packet is
\* the last of the Ogg stream (eos) or not: no audio follows that packet.
\* After a message that ends with the terminator the task sends the data
\* and ends.
ClientSend(n, delim, eos) ==
  /\ client = "open"
  /\ r_pc = "recv"
  /\ 0 < n /\ n <= audio_left
  /\ ~flags.eos
  /\ audio_left' = audio_left - n
  /\ flags' = [delim |-> delim, eos |-> eos]
  /\ LET last == Terminator # << >> /\ delim IN
     IF ~ReaderHeard
     THEN /\ r_pc' = "done"
          /\ UNCHANGED << pkt_chan, r_msg >>
     ELSE IF Len(pkt_chan) < CHANNEL_CAPACITY
     THEN /\ pkt_chan' = Append(pkt_chan, n)
          /\ r_pc' = IF last THEN "done" ELSE r_pc
          /\ UNCHANGED r_msg
     ELSE /\ r_pc' = IF last THEN "sending_last" ELSE "sending"
          /\ r_msg' = n
          /\ UNCHANGED pkt_chan
  /\ UNCHANGED << client, p_pc, resampled_len, offset, chunk_len, pcm, pushed, deque, deque_capacity, stream,
                  frames_consumed, pcm_chan, u_pc, u_msg, poll_due, w_pc, worker_received, worker_heard,
                  w_last_end, w_emitted, w_speech, seg_chan, d_pc, dvars, limit_chan >>
  /\ UNCHANGED lvars

\* create_packet_reader: the send that waited goes through, or fails; the
\* task then reads the socket again and ends if the client has closed it.
ReaderSend ==
  /\ r_pc \in {"sending", "sending_last"}
  /\ IF ~ReaderHeard
     THEN /\ r_pc' = "done"
          /\ UNCHANGED pkt_chan
     ELSE /\ Len(pkt_chan) < CHANNEL_CAPACITY
          /\ pkt_chan' = Append(pkt_chan, r_msg)
          /\ r_pc' = IF r_pc = "sending_last" \/ client = "closed" THEN "done" ELSE "recv"
  /\ r_msg' = 0
  /\ UNCHANGED << client, audio_left, flags, p_pc, resampled_len, offset, chunk_len, pcm, pushed,
                  deque, deque_capacity, stream, frames_consumed, pcm_chan, u_pc, u_msg, poll_due, w_pc,
                  worker_received, worker_heard, w_last_end, w_emitted, w_speech, seg_chan, d_pc, dvars, limit_chan >>
  /\ UNCHANGED lvars

\* The client closes its socket; the packet-reader task ends when it reads
\* the socket next, at once unless it waits in a send.
ClientClose ==
  /\ client = "open"
  /\ p_pc # "idle"
  /\ client' = "closed"
  /\ r_pc' = IF r_pc = "recv" THEN "done" ELSE r_pc
  /\ UNCHANGED << audio_left, flags, pkt_chan, r_msg, p_pc, resampled_len, offset, chunk_len, pcm,
                  pushed, deque, deque_capacity, stream, frames_consumed, pcm_chan, u_pc, u_msg, poll_due,
                  w_pc, worker_received, worker_heard, w_last_end, w_emitted, w_speech, seg_chan, d_pc, dvars,
                  limit_chan >>
  /\ UNCHANGED lvars

\* process: packet_reader.next() yields a packet, decoded to the samples of
\* the message (merge_channels and resample at the canonical rate leave the
\* length).
ReadPacket ==
  /\ p_pc = "read"
  /\ pkt_chan # << >>
  /\ resampled_len' = Head(pkt_chan)
  /\ pkt_chan' = Tail(pkt_chan)
  /\ offset' = 0
  /\ p_pc' = "meter"
  /\ UNCHANGED << client, audio_left, flags, r_pc, r_msg, chunk_len, pcm, pushed, deque, deque_capacity, stream,
                  frames_consumed, pcm_chan, u_pc, u_msg, poll_due, w_pc, worker_received, worker_heard,
                  w_last_end, w_emitted, w_speech, seg_chan, d_pc, dvars, limit_chan >>
  /\ UNCHANGED lvars

\* process: the loop ends, on infsrv_sender.closed() or when there are no
\* more packets; process then awaits the packet-reader task.
ProcessLoopEnd ==
  /\ p_pc = "read"
  /\ ~UplinkAlive \/ (pkt_chan = << >> /\ r_pc = "done")
  /\ p_pc' = "join"
  /\ UNCHANGED << client, audio_left, flags, pkt_chan, r_pc, r_msg, resampled_len, offset,
                  chunk_len, pcm, pushed, deque, deque_capacity, stream, frames_consumed, pcm_chan, u_pc, u_msg,
                  poll_due, w_pc, worker_received, worker_heard, w_last_end, w_emitted, w_speech, seg_chan, d_pc, dvars,
                  limit_chan >>
  /\ UNCHANGED lvars

\* process: join_handle.await returns once the packet-reader task has ended,
\* the rest of the client socket is read until the client closes it, and
\* process returns, dropping packet_reader, infsrv_sender and limit_receiver.
ProcessReturn ==
  /\ p_pc = "join"
  /\ r_pc = "done"
  /\ client = "closed"
  /\ p_pc' = "done"
  /\ pkt_chan' = << >>
  /\ UNCHANGED << client, audio_left, flags, r_pc, r_msg, resampled_len, offset, chunk_len, pcm,
                  pushed, deque, deque_capacity, stream, frames_consumed, pcm_chan, u_pc, u_msg, poll_due,
                  w_pc, worker_received, worker_heard, w_last_end, w_emitted, w_speech, seg_chan, d_pc, dvars,
                  limit_chan >>
  /\ UNCHANGED lvars

\* process_audio_buffer: one turn of the loop up to the push.  RingBuffer::push
\* runs chunk_len times under the lock.  ring_buffer.lock().unwrap() panics
\* once the dispatcher has panicked holding the lock.
MeterAndPush ==
  /\ p_pc = "meter"
  /\ \E build \in IF d_pc = "panicked" THEN {"panics"}
                  ELSE IF HeadRoomOverflows(RING_BUFFER_CAPACITY, pushed, frames_consumed)
                  THEN {"wraps", "panics"} ELSE {"wraps"} :
       IF build = "panics"
       THEN /\ p_pc' = "panicked"
            /\ UNCHANGED << chunk_len, pcm, pushed, deque, stream, resampled_len, offset >>
       ELSE LET len == ChunkLen(RING_BUFFER_CAPACITY, pushed, frames_consumed,
                                resampled_len - offset)
            IN IF len = 0
               THEN /\ p_pc' = "wait"
                    /\ UNCHANGED << chunk_len, pcm, pushed, deque, stream, resampled_len, offset >>
               ELSE LET slice == [i \in 1..len |-> ToI16(resampled[offset + i])] IN
                    /\ chunk_len' = len
                    /\ pcm' = PcmOf(slice)
                    /\ pushed' = pushed + len
                    /\ deque' = PushAll(deque, deque_capacity, slice)
                    /\ stream' = stream \o slice
                    /\ p_pc' = "send"
                    /\ UNCHANGED << resampled_len, offset >>
  /\ UNCHANGED << client, audio_left, flags, pkt_chan, r_pc, r_msg, frames_consumed, pcm_chan, u_pc, u_msg,
                  poll_due, w_pc, worker_received, worker_heard, w_last_end, deque_capacity,
                  w_emitted, w_speech, seg_chan, d_pc, dvars, limit_chan >>
  /\ UNCHANGED lvars

\* process_audio_buffer: limit_receiver.recv() when the head-room is zero.
RecvLimit ==
  /\ p_pc = "wait"
  /\ IF limit_chan # << >>
     THEN /\ frames_consumed' = ToFrames(Head(limit_chan))
          /\ limit_chan' = Tail(limit_chan)
          /\ p_pc' = "meter"
          /\ UNCHANGED << resampled_len, offset >>
     ELSE /\ ~DispatcherAlive
          /\ p_pc' = "join"
          /\ resampled_len' = 0
          /\ offset' = 0
          /\ UNCHANGED << frames_consumed, limit_chan >>
  /\ UNCHANGED << client, audio_left, flags, pkt_chan, r_pc, r_msg, chunk_len, pcm, pushed,
                  deque, deque_capacity, stream, pcm_chan, u_pc, u_msg, poll_due, w_pc,
                  worker_received, worker_heard, w_last_end, w_emitted, w_speech, seg_chan, d_pc, dvars >>
  /\ UNCHANGED lvars

\* process: packet.last_in_stream() of the packet whose buffer is processed,
\* the last message the client sent.
last_in_stream == flags.eos /\ pkt_chan = << >> /\ r_msg = 0

\* process_audio_buffer: infsrv_sender.send(pcm), then offset += chunk_len;
\* after the last chunk of the buffer the terminator is sent, if there is
\* one and the packet is the last of its stream.
SendPcm ==
  /\ p_pc = "send"
  /\ IF ~UplinkAlive
     THEN /\ p_pc' = "join"
          /\ resampled_len' = 0
          /\ offset' = 0
          /\ UNCHANGED pcm_chan
     ELSE /\ Len(pcm_chan) < CHANNEL_CAPACITY
          /\ pcm_chan' = Append(pcm_chan, pcm)
          /\ IF offset + chunk_len < resampled_len
             THEN /\ offset' = offset + chunk_len
                  /\ p_pc' = "meter"
                  /\ UNCHANGED resampled_len
             ELSE /\ offset' = 0
                  /\ resampled_len' = 0
                  /\ p_pc' = IF Terminator # << >> /\ last_in_stream THEN "delim" ELSE "read"
  /\ chunk_len' = 0
  /\ pcm' = << >>
  /\ UNCHANGED << client, audio_left, flags, pkt_chan, r_pc, r_msg, pushed, deque, deque_capacity, stream,
                  frames_consumed, u_pc, u_msg, poll_due, w_pc,
                  worker_received, worker_heard, w_last_end, w_emitted, w_speech, seg_chan, d_pc, dvars, limit_chan >>
  /\ UNCHANGED lvars

\* process_audio_buffer: infsrv_sender.send(delim.to_owned())
SendTerminator ==
  /\ p_pc = "delim"
  /\ IF ~UplinkAlive
     THEN /\ p_pc' = "join"
          /\ UNCHANGED pcm_chan
     ELSE /\ Len(pcm_chan) < CHANNEL_CAPACITY
          /\ pcm_chan' = Append(pcm_chan, Terminator[1])
          /\ p_pc' = "read"
  /\ UNCHANGED << client, audio_left, flags, pkt_chan, r_pc, r_msg, resampled_len, offset, chunk_len,
                  pcm, pushed, deque, deque_capacity, stream, frames_consumed, u_pc, u_msg,
                  poll_due, w_pc, worker_received, worker_heard, w_last_end, w_emitted,
                  w_speech, seg_chan, d_pc, dvars, limit_chan >>
  /\ UNCHANGED lvars

\* The recv branch that takes an empty channel for a closed one.
UplinkRecvBreaksOnEmpty ==
  /\ u_pc = "select"
  /\ IF pcm_chan # << >>
     THEN /\ u_msg' = Head(pcm_chan)
          /\ pcm_chan' = Tail(pcm_chan)
          /\ u_pc' = "sending"
     ELSE /\ u_pc' = "closing"
          /\ UNCHANGED << u_msg, pcm_chan >>
  /\ UNCHANGED << client, audio_left, flags, pkt_chan, r_pc, r_msg, p_pc, resampled_len, offset, chunk_len, pcm, pushed,
                  deque, deque_capacity, stream, frames_consumed, poll_due, w_pc,
                  worker_received, worker_heard, w_last_end, w_emitted, w_speech, seg_chan, d_pc, dvars, limit_chan >>
  /\ UNCHANGED lvars

\* The uplink task: the receiver.recv() branch of its select.
UplinkRecv ==
  /\ u_pc = "select"
  /\ IF pcm_chan # << >>
     THEN /\ u_msg' = Head(pcm_chan)
          /\ pcm_chan' = Tail(pcm_chan)
          /\ u_pc' = "sending"
     ELSE /\ ~ProcessorAlive
          /\ u_pc' = "closing"
          /\ UNCHANGED << u_msg, pcm_chan >>
  /\ UNCHANGED << client, audio_left, flags, pkt_chan, r_pc, r_msg, p_pc, resampled_len, offset, chunk_len, pcm, pushed,
                  deque, deque_capacity, stream, frames_consumed, poll_due, w_pc,
                  worker_received, worker_heard, w_last_end, w_emitted, w_speech, seg_chan, d_pc, dvars, limit_chan >>
  /\ UNCHANGED lvars

\* The uplink task: ws_sender.send(pcm) completes, when the worker reads the
\* message or when the socket fails.
UplinkSent ==
  /\ u_pc = "sending"
  /\ IF w_pc \in {"open", "unread"}
     THEN /\ worker_received' = worker_received +
                                   (IF Terminator = << u_msg >> THEN 0 ELSE Len(u_msg) \div 2)
          /\ worker_heard' = worker_heard \o u_msg
          /\ u_pc' = "select"
     ELSE /\ u_pc' = "closing"
          /\ UNCHANGED << worker_received, worker_heard >>
  /\ u_msg' = << >>
  /\ UNCHANGED << client, audio_left, flags, pkt_chan, r_pc, r_msg, p_pc, resampled_len, offset, chunk_len, pcm, pushed,
                  deque, deque_capacity, stream, frames_consumed, pcm_chan, poll_due,
                  w_pc, w_last_end, w_emitted, w_speech, seg_chan, d_pc, dvars, limit_chan >>
  /\ UNCHANGED lvars

\* The uplink task: the closed_interval.tick() branch of its select.
UplinkPoll ==
  /\ u_pc = "select"
  /\ poll_due
  /\ poll_due' = FALSE
  /\ u_pc' = IF check_invalidated(Session) = FALSE THEN "select" ELSE "closing"
  /\ UNCHANGED << client, audio_left, flags, pkt_chan, r_pc, r_msg, p_pc, resampled_len, offset, chunk_len, pcm, pushed,
                  deque, deque_capacity, stream, frames_consumed, pcm_chan, u_msg, w_pc, worker_received, worker_heard,
                  w_last_end, w_emitted, w_speech, seg_chan, d_pc, dvars, limit_chan >>
  /\ UNCHANGED lvars

\* The uplink task after its loop: ws_sender.close(); the task ends and
\* drops the Allocation it owns.
UplinkClose ==
  /\ u_pc = "closing"
  /\ u_pc' = "closed"
  /\ Drop(Session)
  /\ UNCHANGED fvars
  /\ UNCHANGED << client, audio_left, flags, pkt_chan, r_pc, r_msg, p_pc, resampled_len, offset, chunk_len, pcm, pushed,
                  deque, deque_capacity, stream, frames_consumed, pcm_chan, u_msg, poll_due, w_pc, worker_received, worker_heard, w_last_end, w_emitted, w_speech,
                  seg_chan, d_pc, dvars, limit_chan >>

\* A segment that ends after it begins, whatever was sent before.
SegmentEndsAfterBegin(last_end, begin, end) == begin <= end

\* Segment: the times do not decrease across the sequence, and end >= begin.
SegmentContract(last_end, begin, end) == last_end <= begin /\ begin <= end

\* The worker sends a segment and the downlink task forwards it to the
\* dispatcher.
WorkerSegment(kind, begin, end) ==
  /\ w_pc = "open"
  /\ DispatcherAlive
  /\ w_emitted < MaxSegments
  /\ Len(seg_chan) < CHANNEL_CAPACITY
  /\ SegmentContract(w_last_end, begin, end)
  /\ seg_chan' = Append(seg_chan, [kind |-> kind, begin |-> begin, end |-> end])
  /\ w_last_end' = end
  /\ w_emitted' = w_emitted + 1
  /\ w_speech' = IF kind = "Speech"
                 THEN Append(w_speech, [begin |-> begin, end |-> end])
                 ELSE w_speech
  /\ UNCHANGED << client, audio_left, flags, pkt_chan, r_pc, r_msg, p_pc, resampled_len, offset, chunk_len, pcm, pushed,
                  deque, deque_capacity, stream, frames_consumed, pcm_chan, u_pc, u_msg, poll_due, w_pc, worker_received, worker_heard, d_pc, dvars, limit_chan >>
  /\ UNCHANGED lvars

\* The item the queue of the dispatcher holds for an error: Err(Internal).
InternalError == [kind |-> "Error", begin |-> 0, end |-> 0]

\* The downlink with the error item sent twice.
WorkerBadFrameTwice ==
  /\ w_pc = "open"
  /\ w_pc' = "unread"
  /\ IF DispatcherAlive
     THEN /\ Len(seg_chan) < CHANNEL_CAPACITY
          /\ seg_chan' = Append(Append(seg_chan, InternalError), InternalError)
     ELSE seg_chan' = seg_chan
  /\ UNCHANGED << client, audio_left, flags, pkt_chan, r_pc, r_msg, p_pc, resampled_len, offset, chunk_len, pcm, pushed,
                  deque, deque_capacity, stream, frames_consumed, pcm_chan, u_pc, u_msg, poll_due, worker_received, worker_heard, w_last_end, w_emitted, w_speech,
                  d_pc, dvars, limit_chan >>
  /\ UNCHANGED lvars

\* The worker sends a text frame that is not the JSON of a SegmentItem: the
\* downlink task sends Err(Internal) to the dispatcher, whether or not the
\* dispatcher still listens, and ends; the socket stays open for the uplink.
WorkerBadFrame ==
  /\ w_pc = "open"
  /\ w_pc' = "unread"
  /\ IF DispatcherAlive
     THEN /\ Len(seg_chan) < CHANNEL_CAPACITY
          /\ seg_chan' = Append(seg_chan, InternalError)
     ELSE seg_chan' = seg_chan
  /\ UNCHANGED << client, audio_left, flags, pkt_chan, r_pc, r_msg, p_pc, resampled_len, offset, chunk_len, pcm, pushed,
                  deque, deque_capacity, stream, frames_consumed, pcm_chan, u_pc, u_msg, poll_due, worker_received, worker_heard, w_last_end, w_emitted, w_speech,
                  d_pc, dvars, limit_chan >>
  /\ UNCHANGED lvars

\* The worker closes the socket (after the uplink's close, or on its own):
\* the downlink task ends and drops its sender.
WorkerClose ==
  /\ w_pc \in {"open", "unread"}
  /\ w_pc' = "closed"
  /\ UNCHANGED << client, audio_left, flags, pkt_chan, r_pc, r_msg, p_pc, resampled_len, offset, chunk_len, pcm, pushed,
                  deque, deque_capacity, stream, frames_consumed, pcm_chan, u_pc, u_msg, poll_due, worker_received, worker_heard, w_last_end, w_emitted, w_speech, seg_chan,
                  d_pc, dvars, limit_chan >>
  /\ UNCHANGED lvars

\* extract_time_interval_wav: get_index,
\*   (((time * sample_rate) as usize).max(frame_offset) - frame_offset)
\*       .min(self.deque.len() - 1)
\* where deque.len() - 1 has wrapped to usize::MAX when the deque is empty.
get_index(time, p, len) ==
  LET frame_offset == p - len
      frame == ToFrames(time)
      index == (IF frame > frame_offset THEN frame ELSE frame_offset) - frame_offset
  IN IF len = 0 \/ index < len - 1 THEN index ELSE len - 1

\* extract_time_interval_wav: the samples of the clip, deque[begin_index..end_index],
\* named by their place among the samples pushed: first up to last - 1.
extract_time_interval_wav(begin, end, p, len) ==
  [first |-> (p - len) + get_index(begin, p, len),
   last  |-> (p - len) + get_index(end, p, len)]

\* extract_time_interval_wav panics: deque.len() - 1 overflows in a build with
\* overflow checks, end_index - begin_index overflows (the capacity asked of
\* the Vec, or the assert on its length), or self.deque[i] is out of range.
ExtractPanics(begin, end, p, len, build) ==
  \/ len = 0 /\ build = "panics"
  \/ get_index(end, p, len) < get_index(begin, p, len)
  \/ get_index(begin, p, len) < get_index(end, p, len) /\ get_index(end, p, len) > len

\* The call made with no prompt.
NoPrompt(it) == 0

\* process_segments: item.take().map(|s: TranscribeItem| s.text), the prompt
\* of the call (0 when there is none).
Prompt(it) == IF it.some THEN it.text ELSE 0

\* The Allocation handle of the k-th transcribe call of the session.
TranscribeHandle(k) == Session + k

\* The loop goes on to the next segment.
DispatcherGoesOn ==
  /\ d_pc' = "recv"
  /\ client_sink' = client_sink
  /\ d_seg' = NoSeg
  /\ wav_blob' = NoClip
  /\ item' = None

\* process_segments: the loop ends, client_sender.close().
DispatcherEnds ==
  /\ d_pc' = "done"
  /\ client_sink' = "closed"
  /\ d_seg' = NoSeg
  /\ wav_blob' = NoClip
  /\ item' = None

\* process_segments: one segment taken from the queue.  A Void segment sends
\* its end to the meter channel.  A Speech segment has its clip extracted
\* under the lock of the ring buffer, sends its end to the meter channel and
\* calls InfsrvPool::transcribe with the text retained, up to Ledger::allocate.
DispatchSegment ==
  /\ d_pc = "recv"
  /\ IF seg_chan # << >>
     THEN LET seg == Head(seg_chan) IN
          /\ seg_chan' = Tail(seg_chan)
          /\ IF seg.kind = "Error"
             THEN /\ DispatcherEnds
                  /\ UNCHANGED << limit_chan, prompts, records >>
                  /\ UNCHANGED lvars
             ELSE IF seg.kind = "Void"
             THEN /\ IF ProcessorAlive
                     THEN /\ limit_chan' = Append(limit_chan, seg.end)
                          /\ UNCHANGED << d_pc, dvars >>
                     ELSE /\ DispatcherEnds
                          /\ UNCHANGED << limit_chan, prompts, records >>
                  /\ UNCHANGED lvars
             ELSE \E build \in IF deque_len = 0 THEN {"wraps", "panics"} ELSE {"wraps"} :
                    IF ExtractPanics(seg.begin, seg.end, pushed, deque_len, build)
                    THEN /\ d_pc' = "panicked"
                         /\ item' = None
                         /\ UNCHANGED << limit_chan, d_seg, wav_blob, prompts, records,
                                         client_sink >>
                         /\ UNCHANGED lvars
                    ELSE IF ~ProcessorAlive
                    THEN /\ DispatcherEnds
                         /\ UNCHANGED << limit_chan, prompts, records >>
                         /\ UNCHANGED lvars
                    ELSE /\ wav_blob' = extract_time_interval_wav(seg.begin, seg.end,
                                                                  pushed, deque_len)
                         /\ limit_chan' = Append(limit_chan, seg.end)
                         /\ d_seg' = [begin |-> seg.begin, end |-> seg.end]
                         /\ prompts' = Append(prompts, Prompt(item))
                         /\ item' = None
                         /\ d_pc' = "transcribing"
                         /\ Allocate(TranscribeHandle(Len(prompts) + 1), req[Session].user,
                                     "Transcribe", req[Session].tariff)
                         /\ UNCHANGED << records, client_sink >>
                         /\ UNCHANGED fvars
     ELSE /\ w_pc \in {"unread", "closed"}
          /\ DispatcherEnds
          /\ UNCHANGED << seg_chan, limit_chan, prompts, records >>
          /\ UNCHANGED lvars
  /\ UNCHANGED << client, audio_left, flags, pkt_chan, r_pc, r_msg, p_pc, resampled_len, offset, chunk_len, pcm, pushed,
                  deque, deque_capacity, stream, frames_consumed, pcm_chan, u_pc, u_msg, poll_due, w_pc, worker_received, worker_heard, w_last_end, w_emitted, w_speech >>

\* InfsrvPool::transcribe: Ledger::allocate returned an error, which the `?`
\* returns to process_segments; the loop ends.
TranscribeRefused ==
  /\ d_pc = "transcribing"
  /\ pc[TranscribeHandle(Len(prompts))] = "alloc_failed"
  /\ DispatcherEnds
  /\ UNCHANGED << prompts, records >>
  /\ UNCHANGED << client, audio_left, flags, pkt_chan, r_pc, r_msg, p_pc, resampled_len, offset, chunk_len, pcm, pushed,
                  deque, deque_capacity, stream, frames_consumed, pcm_chan, u_pc, u_msg, poll_due, w_pc, worker_received, worker_heard, w_last_end, w_emitted, w_speech,
                  seg_chan, limit_chan >>
  /\ UNCHANGED lvars

\* The item with the times of the answer, which count from the start of the clip.
TranscribeItemOfAnswer(begin, end, text) ==
  [begin |-> 0, end |-> end - begin, text |-> text]

\* process_segments: item = Some(TranscribeItem { begin, end, text: transcribe_item.text })
TranscribeItem(begin, end, text) == [begin |-> begin, end |-> end, text |-> text]

\* The message sent twice.
SentTwice(sent, message) == Append(Append(sent, message), message)

\* process_segments: client_sender.send(Message::Text(json + "\n")), on what
\* the client has been sent.
Sent(sent, message) == Append(sent, message)

\* InfsrvPool::transcribe from the POST on: the transcriber answers with a
\* text (the call-th answer is named by its number), or the request or the
\* parse of the answer fails; the call returns and drops its Allocation.
\* process_segments then retains the item and sends the record to the client,
\* and its loop ends if the call or the send failed.
DispatchTranscribed(ok) ==
  /\ d_pc = "transcribing"
  /\ Drop(TranscribeHandle(Len(prompts)))
  /\ UNCHANGED fvars
  /\ IF ok
     THEN IF client = "open"
          THEN /\ records' = Sent(records,
                                   TranscribeItem(d_seg.begin, d_seg.end, Len(prompts)))
               /\ item' = Some(TranscribeItem(d_seg.begin, d_seg.end, Len(prompts)))
               /\ d_pc' = "recv"
               /\ d_seg' = NoSeg
               /\ wav_blob' = NoClip
               /\ UNCHANGED client_sink
          ELSE /\ DispatcherEnds
               /\ UNCHANGED records
     ELSE /\ DispatcherEnds
          /\ UNCHANGED records
  /\ UNCHANGED prompts
  /\ UNCHANGED << client, audio_left, flags, pkt_chan, r_pc, r_msg, p_pc, resampled_len, offset, chunk_len, pcm, pushed,
                  deque, deque_capacity, stream, frames_consumed, pcm_chan, u_pc, u_msg, poll_due, w_pc, worker_received, worker_heard, w_last_end, w_emitted, w_speech,
                  seg_chan, limit_chan >>

\* The uplink's interval(Duration::from_secs(5)) fires.
IntervalFires ==
  /\ UplinkAlive
  /\ ~poll_due
  /\ poll_due' = TRUE
  /\ UNCHANGED << client, audio_left, flags, pkt_chan, r_pc, r_msg, p_pc, resampled_len, offset, chunk_len, pcm, pushed,
                  deque, deque_capacity, stream, frames_consumed, pcm_chan, u_pc, u_msg, w_pc,
                  worker_received, worker_heard, w_last_end, w_emitted, w_speech, seg_chan, d_pc, dvars, limit_chan >>
  /\ UNCHANGED lvars

\* The start of a session and the release of its allocation.
SessionLedgerSteps ==
  \/ TryAllocateRead(Session) /\ UNCHANGED svars
  \/ TryAllocateCommit(Session) /\ UNCHANGED svars
  \/ \E ok \in BOOLEAN : Connect(ok)
  \/ TryDeallocateRead(Session) /\ UNCHANGED svars
  \/ TryDeallocateCommit(Session) /\ UNCHANGED svars

\* The requests of a session without a terminator, and the ledger's part.
SessionLedgerNext ==
  \/ \E u \in Users, content_type \in ContentTypes, tariff \in QueryTariffs :
        handle_transcribe(u, content_type, tariff, << >>)
  \/ SessionLedgerSteps

\* The processor, the uplink's forwarding and the worker's socket.
SessionAudioSteps ==
  \/ ReaderSend
  \/ ClientClose
  \/ ReadPacket
  \/ ProcessLoopEnd
  \/ ProcessReturn
  \/ MeterAndPush
  \/ RecvLimit
  \/ SendPcm
  \/ UplinkRecv
  \/ UplinkSent
  \/ UplinkClose
  \/ WorkerClose
  \/ DispatchSegment

\* The client, the processor, the uplink's forwarding and the worker's socket.
SessionAudioNext ==
  \/ \E n \in 1..(RING_BUFFER_CAPACITY + 1) : ClientSend(n, FALSE, FALSE)
  \/ SessionAudioSteps

\* The session with its timers, the 5 s interval of the uplink and the 1 s
\* debiter, while the worker reports no segment.
PollNext ==
  \/ SessionLedgerNext
  \/ SessionAudioNext
  \/ IntervalFires
  \/ UplinkPoll
  \/ update_balances /\ UNCHANGED svars

\* One session is followed, of user u1 (of u2, turned away at once).
InitSession == Init /\ balance["u2"] < 0

SpecPoll == InitSession /\ [][PollNext]_vars

\* The tasks of the session are scheduled by the runtime (a step that stays
\* enabled is taken), select! picks at random among the branches that are
\* ready (a branch ready again and again is taken), the interval and the
\* debiter keep firing, and the worker reads what is sent to it.  Nothing is
\* assumed of the client.
PollFairness ==
  /\ WF_vars(IntervalFires)
  /\ SF_vars(UplinkPoll)
  /\ SF_vars(UplinkRecv)
  /\ WF_vars(UplinkSent)
  /\ WF_vars(UplinkClose)
  /\ WF_vars(ReaderSend)
  /\ WF_vars(ReadPacket)
  /\ WF_vars(ProcessLoopEnd)
  /\ WF_vars(ProcessReturn)
  /\ WF_vars(MeterAndPush)
  /\ WF_vars(RecvLimit)
  /\ WF_vars(SendPcm)
  /\ WF_vars(DispatchSegment)
  /\ WF_vars(update_balances /\ UNCHANGED svars)
  /\ WF_vars(TryAllocateRead(Session) /\ UNCHANGED svars)
  /\ WF_vars(TryAllocateCommit(Session) /\ UNCHANGED svars)
  /\ WF_vars(TryDeallocateRead(Session) /\ UNCHANGED svars)
  /\ WF_vars(TryDeallocateCommit(Session) /\ UNCHANGED svars)

FairPoll == SpecPoll /\ PollFairness

\* The ledger's part of the transcribe calls and the release of their
\* allocations.
TranscribeLedgerNext ==
  \E k \in 1..MaxSegments :
    \/ TryAllocateRead(TranscribeHandle(k)) /\ UNCHANGED svars
    \/ TryAllocateCommit(TranscribeHandle(k)) /\ UNCHANGED svars
    \/ TryDeallocateRead(TranscribeHandle(k)) /\ UNCHANGED svars
    \/ TryDeallocateCommit(TranscribeHandle(k)) /\ UNCHANGED svars

\* The session between the ticks of its timers, while the worker hears no
\* speech: every segment it reports is Void.  The owner is in credit: no step
\* of a session changes a balance, so that a poll of the uplink would find
\* the allocation valid and go on.
MeterNext ==
  \/ SessionLedgerNext
  \/ SessionAudioNext
  \/ \E begin, end \in 0..MaxEnd : WorkerSegment("Void", begin, end)

InitMeter == InitSession /\ balance["u1"] > 0

SpecMeter == InitMeter /\ [][MeterNext]_vars

\* The tasks of the session are scheduled by the runtime and the worker reads
\* what is sent to it.  Nothing is assumed of the client, nor of the segments
\* the worker sends.
MeterFairness ==
  /\ SF_vars(UplinkRecv)
  /\ WF_vars(UplinkSent)
  /\ WF_vars(UplinkClose)
  /\ WF_vars(ReaderSend)
  /\ WF_vars(ReadPacket)
  /\ WF_vars(ProcessLoopEnd)
  /\ WF_vars(ProcessReturn)
  /\ WF_vars(MeterAndPush)
  /\ WF_vars(RecvLimit)
  /\ WF_vars(SendPcm)
  /\ WF_vars(DispatchSegment)
  /\ WF_vars(TryAllocateRead(Session) /\ UNCHANGED svars)
  /\ WF_vars(TryAllocateCommit(Session) /\ UNCHANGED svars)
  /\ WF_vars(TryDeallocateRead(Session) /\ UNCHANGED svars)
  /\ WF_vars(TryDeallocateCommit(Session) /\ UNCHANGED svars)

FairMeter == SpecMeter /\ MeterFairness

\* The times that fall on a sample.
SampleTimes == { t \in 0..MaxEnd : t % TimeUnitsPerSample = 0 }

\* The session between the ticks of its timers with a worker that reports
\* speech: the segments begin and end on a sample and lie within the audio
\* the worker has received, and the client sends its audio in one message.
DispatchNext ==
  \/ SessionLedgerNext
  \/ ClientSend(audio_left, FALSE, FALSE)
  \/ ClientClose
  \/ ReadPacket
  \/ ProcessLoopEnd
  \/ ProcessReturn
  \/ MeterAndPush
  \/ RecvLimit
  \/ SendPcm
  \/ UplinkRecv
  \/ UplinkSent
  \/ UplinkClose
  \/ WorkerClose
  \/ \E kind \in {"Speech", "Void"}, begin, end \in SampleTimes :
        ToFrames(end) <= worker_received /\ WorkerSegment(kind, begin, end)
  \/ DispatchSegment
  \/ TranscribeLedgerNext
  \/ TranscribeRefused
  \/ \E ok \in BOOLEAN : DispatchTranscribed(ok)

SpecDispatch == InitMeter /\ [][DispatchNext]_vars

\* The session with a worker that may also send a frame the downlink cannot
\* parse.
BadFrameNext ==
  \/ DispatchNext
  \/ WorkerBadFrame

SpecBadFrame == InitMeter /\ [][BadFrameNext]_vars

\* The release tasks spawned by the drops of the session are scheduled by
\* the runtime and the store answers them.  Nothing is assumed of the client,
\* the worker or the tasks of the session.
FairDispatch ==
  /\ SpecDispatch
  /\ \A a \in {Session} \cup { TranscribeHandle(k) : k \in 1..MaxSegments } :
        /\ WF_vars(TryDeallocateRead(a) /\ UNCHANGED svars)
        /\ WF_vars(TryDeallocateCommit(a) /\ UNCHANGED svars)

(***************************************************************************)
(* RingBuffer on its own: any pushes, and extract_time_interval_wav of any *)
(* interval on the buffer they leave.                                      *)
(***************************************************************************)
\* Pushes made on the ring buffer on its own.
MaxPushes == RING_BUFFER_CAPACITY + 2
\* The samples pushed.
I16Samples == {-1, 258}
\* hound's header of a 16-bit PCM clip.
WAV_HEADER_SIZE == 44

\* RingBuffer::with_capacity and nothing pushed.
InitRing ==
  /\ Start
  /\ balance = [u \in Users |-> 0]
  /\ deque_capacity \in Capacities
  /\ call = NoCall
  /\ ret = NoRet

\* What does not belong to the ring buffer.
beside_ring == << ledger_vars, client, audio_left, flags, pkt_chan, r_pc, r_msg, p_pc, resampled_len,
                  offset, chunk_len, pcm, frames_consumed, pcm_chan, u_pc, u_msg, poll_due, w_pc,
                  worker_received, worker_heard, w_last_end, w_emitted, w_speech, seg_chan,
                  d_pc, limit_chan, dvars >>

\* RingBuffer::push
RingPush(sample) ==
  /\ pushed < MaxPushes
  /\ deque' = push(deque, deque_capacity, sample)
  /\ pushed' = pushed + 1
  /\ stream' = Append(stream, sample)
  /\ call' = [fn |-> "push", begin |-> 0, end |-> 0]
  /\ ret' = NoRet
  /\ UNCHANGED << deque_capacity, beside_ring >>

\* RingBuffer::extract_time_interval_wav: the clip, its header and the
\* samples deque[begin_index..end_index] in little-endian bytes, or a panic.
RingExtract(begin, end) ==
  /\ call' = [fn |-> "extract_time_interval_wav", begin |-> begin, end |-> end]
  /\ \E build \in IF deque_len = 0 THEN {"wraps", "panics"} ELSE {"wraps"} :
       ret' = IF ExtractPanics(begin, end, pushed, deque_len, build)
              THEN [returned |-> "panic", header |-> 0, payload |-> << >>]
              ELSE [returned |-> "clip",
                    header |-> WAV_HEADER_SIZE,
                    payload |-> PcmOf(SubSeq(deque,
                                  get_index(begin, pushed, deque_len) + 1,
                                  get_index(end, pushed, deque_len)))]
  /\ UNCHANGED << deque, deque_capacity, pushed, stream, beside_ring >>

RingNext ==
  \/ \E sample \in I16Samples : RingPush(sample)
  \/ \E begin, end \in 0..MaxEnd : RingExtract(begin, end)

SpecRing == InitRing /\ [][RingNext]_vars

\* The session between the ticks of its timers, of a request with a
\* terminator, while the worker reports no segment: each message of the
\* client ends with the terminator or not, and ends the Ogg stream or not.
TerminatorNext ==
  \/ \E u \in Users :
        handle_transcribe(u, << VORBIS_CONTENT_TYPE >>, "basic", << Delim >>)
  \/ SessionLedgerSteps
  \/ \E n \in 1..RING_BUFFER_CAPACITY, delim \in BOOLEAN, eos \in BOOLEAN :
        ClientSend(n, delim, eos)
  \/ SessionAudioSteps
  \/ SendTerminator

SpecTerminator == InitMeter /\ [][TerminatorNext]_vars

(***************************************************************************)
(* The claims about the ledger.                                            *)
(***************************************************************************)
\* The live allocations of user u, and the sum of their fees.
LiveOf(u) == { a \in Handles : Holding(a) /\ req[a].user = u }
SumFee(u) == SumOver(LiveOf(u), [a \in LiveOf(u) |-> alloc[a].fee])

\* The live allocations placed on node n, and the sums of their resources.
LiveOn(n) == { a \in Handles : Holding(a) /\ alloc[a].node = n }
SumCompute(n) == SumOver(LiveOn(n), [a \in LiveOn(n) |-> alloc[a].compute])
SumMemory(n) == SumOver(LiveOn(n), [a \in LiveOn(n) |-> alloc[a].memory])

\* C1: every user's stored allocated_fee equals the sum of the fees of that
\* user's live allocations.
C1_AllocatedFeeIsSumOfLiveFees ==
  \A u \in Users : allocated_fee[u] = SumFee(u)

\* C2: every node's stored compute_load and memory_load equal the sums of
\* compute and memory over the live allocations placed on the node.
C2_LoadsAreSumsOfLiveAllocations ==
  \A n \in Nodes : /\ compute_load[n] = SumCompute(n)
                   /\ memory_load[n] = SumMemory(n)

\* One allocation is released while another one is live on the same node.
C2_Witness ==
  \E a, b \in Slots : /\ pc[a] = "released" /\ pc[b] = "live"
                      /\ alloc[a].node = alloc[b].node
                      /\ memory_load[alloc[b].node] > 0

\* C3: every node always has 0 <= compute_load <= compute_capacity and
\* 0 <= memory_load <= memory_capacity.
C3_LoadsWithinCapacity ==
  \A n \in Nodes :
    /\ 0 <= compute_load[n] /\ compute_load[n] <= NodeCapacity[n].compute_capacity
    /\ 0 <= memory_load[n] /\ memory_load[n] <= NodeCapacity[n].memory_capacity

\* A node is loaded to its compute capacity, and holds memory, after one of
\* the allocations placed on it was released.
C3_Witness ==
  \E n \in Nodes :
    /\ compute_load[n] = NodeCapacity[n].compute_capacity
    /\ memory_load[n] > 0
    /\ \E a \in Slots : pc[a] = "released" /\ alloc[a].node = n

\* The attempt of caller a that this step is found no node.
NotEnoughResourcesStep(a) ==
  /\ pc[a] = "allocating"
  /\ remains'[a] = remains[a] - 1
  /\ pc'[a] \in {"allocating", "alloc_failed"}

\* No more than two callers have called allocate.
TwoCallers == \A c \in Slots : c > 2 => pc[c] = "idle"

\* C4: of the calls that compete for the capacity of the only suitable node
\* no two hold it together; of two callers the one that gives up returns
\* NotEnoughResources after its last attempt; and an attempt finds no node
\* only while another allocation is live, so that an allocate made after the
\* release succeeds.
C4_OneWinner ==
  /\ [](\A a, b \in Slots :
          (a # b /\ Holding(a) /\ Holding(b) /\ alloc[a].node = alloc[b].node)
            => /\ alloc[a].compute + alloc[b].compute
                    <= NodeCapacity[alloc[a].node].compute_capacity
               /\ alloc[a].memory + alloc[b].memory
                    <= NodeCapacity[alloc[a].node].memory_capacity)
  /\ [](\A a \in Slots :
          (TwoCallers /\ pc[a] = "alloc_failed" /\ err[a] # "NotEnoughBalance")
            => err[a] = "NotEnoughResources" /\ remains[a] = 0)
  /\ [][\A a \in Slots :
          NotEnoughResourcesStep(a) => \E b \in Slots \ {a} : Holding(b)]_vars

\* Two Transcribe calls met on n1: one is live, the other gave up.
C4_Witness ==
  \E a, b \in Slots :
    /\ req[a].task_type = "Transcribe" /\ req[b].task_type = "Transcribe"
    /\ pc[a] = "live"
    /\ pc[b] = "alloc_failed" /\ err[b] = "NotEnoughResources"

\* C5: an allocate attempt for a user whose balance is <= 0 fails with
\* NotEnoughBalance and changes no node load and no allocated_fee.
C5_NoAllocationAtNonPositiveBalance ==
  [][\A a \in Slots :
       (/\ pc[a] = "allocating"
        /\ balance[req[a].user] <= 0
        /\ (pc'[a] # pc[a] \/ remains'[a] # remains[a]))
       => /\ pc'[a] = "alloc_failed"
          /\ err'[a] = "NotEnoughBalance"]_vars

\* C7: once the release of an allocation has committed, the allocate and
\* the release together have changed no node load and no allocated_fee; when
\* no allocation is live, the loads and fees are those of the start.
C7_AllocateThenDropRestores ==
  /\ \A a \in Slots : pc[a] = "released" => effect[a] = NoEffect
  /\ (\A a \in Slots : ~Holding(a) /\ ~InTx(a))
       => /\ compute_load = [n \in Nodes |-> 0]
          /\ memory_load = [n \in Nodes |-> 0]
          /\ allocated_fee = [u \in Users |-> 0]

\* An allocation was released while another one stays live.
C7_Witness ==
  \E a, b \in Slots : pc[a] = "released" /\ Holding(b) /\ alloc[a].memory > 0

\* C8: a debiter tick reduces the balance of every user with live
\* allocations by the sum of their fees, leaves the other balances, the
\* allocated fees and the node loads unchanged.
C8_TickDebitsLiveFees ==
  [][ticked' =>
       /\ \A u \in Users : balance'[u] = balance[u] - SumFee(u)
       /\ UNCHANGED << allocated_fee, compute_load, memory_load >>]_vars


(***************************************************************************)
(* The claims about the session.                                           *)
(***************************************************************************)
\* The uplink takes the tick branch of its select: check_invalidated runs.
PollStep == u_pc = "select" /\ poll_due /\ ~poll_due'

\* C6: check_invalidated returns true if and only if the balance of the
\* owning user is <= 0: a poll of the uplink leaves its loop exactly then.
C6_InvalidatedIffBalanceNotPositive ==
  [][PollStep => ((u_pc' = "closing") <=> (balance[req[Session].user] <= 0))]_vars

\* C9: once the balance of the owning user is non-positive while the session
\* is live, the uplink eventually leaves its loop at a poll and the segmenter
\* allocation is released.
C9_InvalidatedSessionIsReleased ==
  (pc[Session] = "live" /\ u_pc = "select" /\ balance[req[Session].user] <= 0)
    ~> (pc[Session] = "released")

\* C10: at every moment pushed - frames_consumed <= capacity, and the slice
\* just pushed was no longer than the head-room before it.
C10_PushedWithinHeadRoom ==
  /\ pushed - frames_consumed <= RING_BUFFER_CAPACITY
  /\ chunk_len <= RING_BUFFER_CAPACITY - ((pushed - chunk_len) - frames_consumed)

\* The ring was full, the processor waited, a watermark let it push the rest
\* of the buffer, and the head-room is used up again.
C10_Witness ==
  /\ p_pc = "send"
  /\ frames_consumed > 0
  /\ pushed > RING_BUFFER_CAPACITY
  /\ pushed - frames_consumed = RING_BUFFER_CAPACITY

\* C11: the meter watermark never decreases and is at most the end of the
\* latest segment the dispatcher has received: the end sent on the meter
\* channel is no later than the end of the segment just taken and no earlier
\* than any end sent before or the samples counted as consumed, and
\* frames_consumed only grows, to no more than the end it reads.
C11_WatermarkNeverDecreases ==
  [][ /\ frames_consumed' >= frames_consumed
      /\ frames_consumed' # frames_consumed =>
            frames_consumed' * TimeUnitsPerSample <= Head(limit_chan)
      /\ Len(limit_chan') > Len(limit_chan) =>
            LET sent == limit_chan'[Len(limit_chan')] IN
              /\ sent <= Head(seg_chan).end
              /\ frames_consumed * TimeUnitsPerSample <= sent
              /\ \A i \in 1..Len(limit_chan) : limit_chan[i] <= sent ]_vars

\* Two segments were taken, one of them Speech with its record sent, both
\* ends were read by the processor, and the second let it push again.
C11_Witness ==
  /\ d_pc = "recv"
  /\ w_emitted >= 2
  /\ seg_chan = << >>
  /\ limit_chan = << >>
  /\ Len(records) >= 1
  /\ frames_consumed > 0
  /\ frames_consumed = ToFrames(w_last_end)
  /\ p_pc = "send"

\* C12: when the dispatcher extracts the clip of a Speech segment that begins
\* at or after the end of every segment consumed before and is no longer
\* than the ring buffer, every sample of [begin, end) has been pushed, none
\* has been evicted, and the clip holds exactly the samples of the interval.
C12_ClipHoldsTheInterval ==
  [][ (d_pc = "recv" /\ d_pc' = "transcribing") =>
        LET seg == Head(seg_chan) IN
          ToFrames(seg.end) - ToFrames(seg.begin) <= RING_BUFFER_CAPACITY =>
            /\ ToFrames(seg.end) <= pushed
            /\ pushed - deque_len <= ToFrames(seg.begin)
            /\ wav_blob' = [first |-> ToFrames(seg.begin),
                            last |-> ToFrames(seg.end)] ]_vars

\* C13: the ring buffer never holds more than the capacity of its deque
\* (whether that is the capacity asked for is the matter of C22), and when the
\* processor is suspended on the meter channel with the ring buffer full and
\* the end of a Void segment that covers all the audio the client has
\* streamed is on the meter channel, the processor resumes: it pushes
\* samples again and has their chunk to send.
C13_LateVoidResumesPushing ==
  /\ [](deque_len <= deque_capacity)
  /\ (/\ p_pc = "wait"
      /\ limit_chan # << >>
      /\ ToFrames(limit_chan[Len(limit_chan)]) >= Streamed) ~> (p_pc = "send")

\* process_segments takes a segment of the given kind from its queue.
Takes(kind) ==
  /\ d_pc = "recv"
  /\ seg_chan # << >>
  /\ Head(seg_chan).kind = kind
  /\ seg_chan' = Tail(seg_chan)

\* C14: for a Void segment the dispatcher sends the end of the segment to the
\* meter channel and nothing to the client; when the transcription of a
\* Speech segment succeeds it sends exactly one record, and no step sends a
\* record otherwise; the records sent are never more than the Speech
\* segments received.
C14_OneRecordPerSpeech ==
  /\ [][ /\ Takes("Void") =>
              /\ records' = records
              /\ ProcessorAlive => limit_chan' = Append(limit_chan, Head(seg_chan).end)
         /\ (d_pc = "transcribing" /\ d_pc' = "recv") => Len(records') = Len(records) + 1
         /\ ~(d_pc = "transcribing" /\ d_pc' = "recv") => records' = records ]_vars
  /\ [](Len(records) <= Len(prompts) /\ Len(prompts) <= Len(w_speech))

\* A Void segment and a Speech segment were taken and the client was sent the
\* one record of the Speech segment.
C14_Witness ==
  /\ w_emitted = 2
  /\ Len(w_speech) = 1
  /\ seg_chan = << >>
  /\ d_pc = "recv"
  /\ Len(limit_chan) = 2
  /\ Len(records) = 1

\* C15: the records sent to the client are, in order, a prefix of the Speech
\* segments the worker sent: the k-th record carries the (begin, end) of the
\* k-th Speech segment, and a record is only ever added after the records of
\* the earlier segments.
C15_RecordsArePrefixOfSpeech ==
  /\ [](/\ Len(records) <= Len(w_speech)
        /\ \A k \in 1..Len(records) :
              /\ records[k].begin = w_speech[k].begin
              /\ records[k].end = w_speech[k].end)
  /\ [][ records' # records =>
           /\ Len(records') = Len(records) + 1
           /\ SubSeq(records', 1, Len(records)) = records ]_vars

\* Two records were sent, of two Speech segments with different times.
C15_Witness ==
  /\ Len(records) = 2
  /\ records[1].begin < records[1].end
  /\ records[1].end <= records[2].begin
  /\ records[2].begin < records[2].end

TranscribeCalls == { TranscribeHandle(k) : k \in 1..MaxSegments }

\* InfsrvPool::transcribe runs on handle h: it has called allocate and has
\* not returned.
InTranscribe(h) == pc[h] \in {"allocating", "alloc_tx", "live"}

\* C17: at most one transcription is in flight in a session and the session
\* holds at most one live transcriber allocation; the dispatcher takes a
\* segment from its queue only when every transcribe call made has returned
\* and its record has been sent.
C17_OneTranscriptionInFlight ==
  /\ [](/\ Cardinality({ h \in TranscribeCalls : InTranscribe(h) }) <= 1
        /\ Cardinality({ h \in TranscribeCalls : pc[h] = "live" }) <= 1
        /\ \A h \in TranscribeCalls : InTranscribe(h) => d_pc = "transcribing")
  /\ [][ Len(seg_chan') < Len(seg_chan) =>
           /\ \A h \in TranscribeCalls : ~InTranscribe(h)
           /\ Len(records) = Len(prompts) ]_vars

\* The second Speech segment is with the transcriber, on its own allocation,
\* after the record of the first was sent and its allocation released.
C17_Witness ==
  /\ Len(prompts) = 2
  /\ Len(records) = 1
  /\ pc[TranscribeHandle(1)] = "released"
  /\ pc[TranscribeHandle(2)] = "live"

C19_FailedTranscriptionStops ==
  /\ [](/\ Len(prompts) > Len(records) => d_pc \in {"transcribing", "done"}
        /\ d_pc = "done" => client_sink = "closed"
        /\ \A i, j \in 1..Len(records) : i < j => records[i] # records[j])
  /\ [][ /\ (d_pc = "transcribing" /\ d_pc' # "transcribing" /\ records' = records) =>
              (d_pc' = "done" /\ client_sink' = "closed")
         /\ d_pc = "done" =>
              (d_pc' = "done" /\ records' = records /\ client_sink' = "closed")
         /\ Len(records') >= Len(records)
         /\ SubSeq(records', 1, Len(records)) = records ]_vars

\* The record of the first Speech segment was sent, the transcription of the
\* second failed with the client still connected, and the dispatcher has
\* stopped and closed the sink.
C19_Witness ==
  /\ d_pc = "done"
  /\ client_sink = "closed"
  /\ client = "open"
  /\ Len(prompts) = 2
  /\ Len(records) = 1

\* C20: once the dispatcher has terminated and the client has closed its
\* socket, the processor stops, the session callback returns and the
\* segmenter allocation is released, however many messages the client sent;
\* and a packet-reader task that waits on the full packet queue gets on.
C20_SessionEndsAfterDispatcher ==
  /\ (d_pc = "done" /\ client = "closed") ~> (p_pc = "done" /\ pc[Session] = "released")
  /\ (r_pc = "sending") ~> (r_pc # "sending")

\* An attempt of allocate by handle a ends in this step.
AttemptEnds(a) ==
  /\ pc[a] \in {"allocating", "alloc_tx"}
  /\ pc'[a] # pc[a] \/ remains'[a] # remains[a]

Clamped(time) ==
  LET frame_offset == pushed - deque_len
      last == IF deque_len = 0 THEN 0 ELSE deque_len - 1
      frame == ToFrames(time)
  IN IF frame <= frame_offset THEN 0
     ELSE IF frame - frame_offset >= last THEN last ELSE frame - frame_offset

\* C21: on every buffer, the empty one too, and for every begin and end,
\* extract_time_interval_wav returns a clip of 44 + 2 * max(0, ce - cb) bytes
\* whose payload is the retained samples cb up to ce, and a clip of the
\* header alone when cb >= ce.
C21_ExtractReturnsClip ==
  call.fn = "extract_time_interval_wav" =>
    LET cb == Clamped(call.begin)
        ce == Clamped(call.end)
        n == IF ce > cb THEN ce - cb ELSE 0
    IN /\ ret.returned = "clip"
       /\ ret.header + Len(ret.payload) = WAV_HEADER_SIZE + 2 * n
       /\ ret.payload = PcmOf(SubSeq(deque, cb + 1, ce))

\* C22: after any pushes the buffer holds at most RING_BUFFER_CAPACITY
\* samples and no more than were pushed; a push adds 1 to pushed and on a
\* full buffer evicts the oldest sample and no other; and the sample at index
\* i is the (pushed - len + i)-th sample pushed.
C22_RingHoldsTheLastSamples ==
  /\ [](/\ deque_len <= RING_BUFFER_CAPACITY
        /\ pushed >= deque_len
        /\ pushed = Len(stream)
        /\ \A i \in 1..deque_len : deque[i] = stream[pushed - deque_len + i])
  /\ [][ stream' # stream =>
           /\ pushed' = pushed + 1
           /\ deque' = Append(IF deque_len = RING_BUFFER_CAPACITY THEN Tail(deque)
                              ELSE deque,
                              stream'[Len(stream')]) ]_vars

RECURSIVE Concat(_)
\* The bytes of the messages queued in a channel, in order.
Concat(chan) == IF chan = << >> THEN << >> ELSE Head(chan) \o Concat(Tail(chan))

\* The little-endian i16 encoding of a sequence of samples.
LittleEndian(samples) ==
  [j \in 1..(2 * Len(samples)) |->
     LET sample == samples[(j + 1) \div 2]
         u == IF sample < 0 THEN sample + 65536 ELSE sample
     IN IF j % 2 = 1 THEN u % 256 ELSE u \div 256]

\* C23: the bytes the worker has read are a prefix of the little-endian i16
\* encoding of the samples pushed, in their order; while no send of the
\* uplink has failed, the bytes read, in flight and about to be sent are that
\* encoding whole; and after each chunk sent the bytes handed to the uplink
\* are 2 * pushed.
C23_PcmIsTheSamplesPushed ==
  /\ [](/\ pushed = Len(stream)
        /\ Len(worker_heard) <= 2 * pushed
        /\ worker_heard = SubSeq(LittleEndian(stream), 1, Len(worker_heard))
        /\ u_pc \in {"select", "sending"} =>
             worker_heard \o u_msg \o Concat(pcm_chan) \o pcm = LittleEndian(stream))
  /\ [][ (p_pc = "send" /\ p_pc' \in {"meter", "read"} /\ u_pc' \in {"select", "sending"}) =>
           Len(worker_heard') + Len(u_msg') + Len(Concat(pcm_chan')) = 2 * pushed' ]_vars

\* The worker has read all the client's audio, six bytes in the order pushed.
C23_Witness ==
  /\ pushed = RING_BUFFER_CAPACITY + 1
  /\ Len(worker_heard) = 2 * pushed
  /\ worker_heard[1] # worker_heard[2]

\* C24: in a session with a terminator, the worker reads the terminator at
\* most once, after all the PCM and nothing after it, and only if the
\* client's last message ended with it; and once the processor has left its
\* loop with all the client sent pushed, and the uplink, its socket open, has
\* forwarded all the processor sent, the worker has read the terminator if
\* the client's last message ended with it.
C24_TerminatorForwardedOnce ==
  LET TerminatorsHeard == (Len(worker_heard) - 2 * worker_received) \div Len(Delim)
      AllForwarded == /\ p_pc \in {"join", "done"}
                      /\ pushed = Streamed
                      /\ pcm_chan = << >> /\ u_msg = << >>
                      /\ u_pc = "select" /\ w_pc = "open"
                      /\ worker_received = pushed
  IN /\ TerminatorsHeard <= 1
     /\ TerminatorsHeard = 1 =>
           /\ flags.delim
           /\ worker_heard = LittleEndian(SubSeq(stream, 1, worker_received)) \o Delim
     /\ (AllForwarded /\ flags.delim) => TerminatorsHeard = 1

\* C25: a request whose Content-Type is missing or is not exactly
\* 'audio/ogg; codecs=vorbis' returns BadRequest, and the step that takes it
\* changes nothing of the ledger.
C25_ContentTypeCheckedFirst ==
  [][ (/\ call' # call
       /\ call'.fn = "handle_transcribe"
       /\ call'.content_type # << VORBIS_CONTENT_TYPE >>) =>
        (ret'.returned = "BadRequest" /\ UNCHANGED ledger_vars) ]_vars

\* A request without a Content-Type header was turned away.
C25_Witness ==
  /\ call.fn = "handle_transcribe"
  /\ call.content_type = << >>
  /\ ret.returned = "BadRequest"
  /\ pc[Session] = "idle"

\* C26: a request of a user not in debt for a tariff without capabilities for
\* the Segment task gets no allocation, increments no load, and what it returns
\* when the allocation has failed is a BadRequest.
C26_UnsupportedTariffIsBadRequest ==
  (/\ call.fn = "handle_transcribe"
   /\ ret = NoRet
   /\ is_sign_positive(balance[req[Session].user])
   /\ find_with_task_type_and_tariff("Segment", call.tariff) = {}) =>
      /\ pc[Session] \in {"allocating", "alloc_tx", "alloc_failed"}
      /\ \A n \in Nodes : compute_load[n] = 0 /\ memory_load[n] = 0
      /\ pc[Session] = "alloc_failed" => status(err[Session]) = 400

(***************************************************************************)
(* The functions of middleware.rs and util/fmt.rs, called on their own.    *)
(***************************************************************************)
\* parse_access_token: const UUID_LEN: usize = 16, scaled down.
UUID_LEN == 1
\* data/token.rs: pub const TOKEN_KEY_LEN: usize = 32, scaled down.
TOKEN_KEY_LEN == 2
\* Longest string given to parse_access_token.
MaxTokenChars == 5
\* Longest Debug output piece, in characters, and most pieces of an output.
MaxStrChars == 2
MaxWrites == 2
\* Largest max_len of a TruncateDebug.
MaxMaxLen == 4
\* Longest chain of errors.
MaxChain == 3

\* The alphabet of BASE64_STANDARD.
Alphabet ==
  << "A", "B", "C", "D", "E", "F", "G", "H", "I", "J", "K", "L", "M", "N", "O", "P",
     "Q", "R", "S", "T", "U", "V", "W", "X", "Y", "Z", "a", "b", "c", "d", "e", "f",
     "g", "h", "i", "j", "k", "l", "m", "n", "o", "p", "q", "r", "s", "t", "u", "v",
     "w", "x", "y", "z", "0", "1", "2", "3", "4", "5", "6", "7", "8", "9", "+", "/" >>

RECURSIVE encode(_)
\* BASE64_STANDARD.encode: three bytes to four symbols, the rest padded.
encode(data) ==
  LET sym(v) == Alphabet[v + 1]
      b1 == data[1]
      b2 == data[2]
      b3 == data[3]
  IN IF data = << >> THEN << >>
     ELSE IF Len(data) = 1
     THEN << sym(b1 \div 4), sym((b1 % 4) * 16), "=", "=" >>
     ELSE IF Len(data) = 2
     THEN << sym(b1 \div 4), sym((b1 % 4) * 16 + b2 \div 16), sym((b2 % 16) * 4), "=" >>
     ELSE << sym(b1 \div 4), sym((b1 % 4) * 16 + b2 \div 16),
             sym((b2 % 16) * 4 + b3 \div 64), sym(b3 % 64) >>
          \o encode(SubSeq(data, 4, Len(data)))

RECURSIVE decode(_)
\* BASE64_STANDARD.decode: the padding is required and canonical, and the
\* bits of the last symbol that belong to no byte are zero.
decode(token) ==
  LET symbols == { Alphabet[k] : k \in 1..64 }
      val(c) == (CHOOSE k \in 1..64 : Alphabet[k] = c) - 1
      Err == [ok |-> FALSE, data |-> << >>]
      v1 == val(token[1])
      v2 == val(token[2])
      v3 == val(token[3])
      v4 == val(token[4])
      rest == decode(SubSeq(token, 5, Len(token)))
  IN IF token = << >> THEN [ok |-> TRUE, data |-> << >>]
     ELSE IF Len(token) < 4 \/ token[1] \notin symbols \/ token[2] \notin symbols THEN Err
     ELSE IF token[3] \in symbols /\ token[4] \in symbols
     THEN IF rest.ok
          THEN [ok |-> TRUE,
                data |-> << v1 * 4 + v2 \div 16, (v2 % 16) * 16 + v3 \div 4,
                            (v3 % 4) * 64 + v4 >> \o rest.data]
          ELSE Err
     ELSE IF Len(token) > 4 \/ token[4] # "=" THEN Err
     ELSE IF token[3] \in symbols
     THEN IF v3 % 4 = 0
          THEN [ok |-> TRUE, data |-> << v1 * 4 + v2 \div 16, (v2 % 16) * 16 + v3 \div 4 >>]
          ELSE Err
     ELSE IF token[3] = "=" /\ v2 % 16 = 0
     THEN [ok |-> TRUE, data |-> << v1 * 4 + v2 \div 16 >>]
     ELSE Err

\* Auth::compose_access_token
compose_access_token(token, key) == encode(token \o key)

\* parse_access_token that takes a key of any length.
parse_any_key(token) ==
  LET decoded == decode(token) IN
  IF ~decoded.ok \/ Len(decoded.data) < UUID_LEN THEN [returned |-> "None"]
  ELSE [returned |-> "Some",
        token |-> SubSeq(decoded.data, 1, UUID_LEN),
        key |-> SubSeq(decoded.data, UUID_LEN + 1, Len(decoded.data))]

\* Auth::parse_access_token
parse_access_token(token) ==
  LET decoded == decode(token) IN
  IF ~decoded.ok \/ Len(decoded.data) # UUID_LEN + TOKEN_KEY_LEN THEN [returned |-> "None"]
  ELSE [returned |-> "Some",
        token |-> SubSeq(decoded.data, 1, UUID_LEN),
        key |-> SubSeq(decoded.data, UUID_LEN + 1, Len(decoded.data))]

\* s.is_char_boundary(index): the start, the end, or a byte that is not a
\* continuation byte of UTF-8.
is_char_boundary(s, index) ==
  index = 0 \/ index = Len(s) \/ (index < Len(s) /\ s[index + 1] \notin 128..191)

\* TruncateWriter::write_str: &s[..write_len] panics when write_len is not
\* on a character boundary.
write_str(w, s) ==
  LET write_len == IF Len(s) < w.remaining THEN Len(s) ELSE w.remaining
  IN IF w.panicked \/ w.remaining = 0 THEN w
     ELSE IF ~is_char_boundary(s, write_len) THEN [w EXCEPT !.panicked = TRUE]
     ELSE [out |-> w.out \o SubSeq(s, 1, write_len),
           remaining |-> w.remaining - write_len, panicked |-> FALSE]

RECURSIVE WriteAll(_, _)
\* write!(&mut writer, "{:?}", self.value): the Debug of the value writes its
\* output in pieces.
WriteAll(w, pieces) ==
  IF pieces = << >> THEN w ELSE WriteAll(write_str(w, Head(pieces)), Tail(pieces))

\* <TruncateDebug as Debug>::fmt on a value whose Debug writes `pieces`.
TruncateDebug(pieces, max_len) ==
  LET w == WriteAll([out |-> << >>, remaining |-> max_len, panicked |-> FALSE], pieces)
  IN IF w.panicked THEN [returned |-> "panic"]
     ELSE [returned |-> "Ok",
           out |-> IF w.remaining = 0 THEN w.out \o << 46, 46, 46 >> ELSE w.out]

\* The loop that ends after the first cause.
FirstCause(out, source) ==
  IF source = << >> THEN out ELSE out \o << ": ", Head(source) >>

RECURSIVE Causes(_, _)
\* ErrorChainDisplay::fmt: while let Some(cause) = source
Causes(out, source) ==
  IF source = << >> THEN out
  ELSE Causes(out \o << ": ", Head(source) >>, Tail(source))

\* <ErrorChainDisplay as Display>::fmt on an error given as the messages of
\* its chain, its own first: what is written, piece by piece.
ErrorChainDisplay(error) == Causes(<< Head(error) >>, Tail(error))

\* The sequences of at most n elements of a set.
UpTo(n, set) == UNION { [1..k -> set] : k \in 0..n }

\* A call of compose_access_token.
CallCompose ==
  /\ call = NoCall
  /\ UNCHANGED << ledger_vars, svars >>
  /\ \E token \in [1..UUID_LEN -> {0, 77, 255}], key \in [1..TOKEN_KEY_LEN -> {0, 77, 255}] :
      /\ call' = [fn |-> "compose_access_token", token |-> token, key |-> key]
      /\ ret' = [returned |-> "String", token |-> compose_access_token(token, key)]

\* A call of parse_access_token.
CallParse ==
  /\ call = NoCall
  /\ UNCHANGED << ledger_vars, svars >>
  /\ \E token \in UpTo(MaxTokenChars, {"A", "Q", "/", "=", "*"}) :
      /\ call' = [fn |-> "parse_access_token", token |-> token]
      /\ ret' = parse_access_token(token)

\* A TruncateDebug is formatted, of a value whose Debug output is not empty:
\* the pieces are made of an ASCII character and one of two bytes.
CallTruncateDebug ==
  /\ call = NoCall
  /\ UNCHANGED << ledger_vars, svars >>
  /\ \E pieces \in UpTo(MaxWrites, { Concat(cs) : cs \in UpTo(MaxStrChars, {<< 97 >>, << 195, 169 >>}) }),
       max_len \in 0..MaxMaxLen :
      /\ Concat(pieces) # << >>
      /\ call' = [fn |-> "TruncateDebug", pieces |-> pieces, max_len |-> max_len]
      /\ ret' = TruncateDebug(pieces, max_len)

\* An ErrorChainDisplay is formatted.
CallErrorChainDisplay ==
  /\ call = NoCall
  /\ UNCHANGED << ledger_vars, svars >>
  /\ \E error \in UpTo(MaxChain, {"v", "v2", "v3"}) :
      /\ error # << >>
      /\ call' = [fn |-> "ErrorChainDisplay", error |-> error]
      /\ ret' = [returned |-> "Ok", out |-> ErrorChainDisplay(error)]

\* One call is followed.
UtilNext ==
  \/ CallCompose
  \/ CallParse
  \/ CallTruncateDebug
  \/ CallErrorChainDisplay

\* No session runs and no ring buffer exists.
InitUtil == Init /\ \A u \in Users : balance[u] = 0

SpecUtil == InitUtil /\ [][UtilNext]_vars

\* C27: the token composed of an id and a key parses to that id and key, and
\* a string that parses to an id and a key is the base64 of those 16 + 32
\* bytes: any other string parses to None.
C27_TokenRoundTrip ==
  /\ call.fn = "compose_access_token" =>
        parse_access_token(ret.token) =
          [returned |-> "Some", token |-> call.token, key |-> call.key]
  /\ (call.fn = "parse_access_token" /\ ret.returned # "None") =>
        /\ ret.returned = "Some"
        /\ Len(ret.token) = UUID_LEN /\ Len(ret.key) = TOKEN_KEY_LEN
        /\ call.token = encode(ret.token \o ret.key)

\* A string was parsed to an id and a key.
C27_Witness ==
  /\ call.fn = "parse_access_token"
  /\ ret.returned = "Some"
  /\ ret.key = << 15, 192 >>

\* C28: TruncateDebug writes the first max_len bytes of the Debug output and
\* '...' when the output is longer than max_len bytes, and the output alone
\* when it is not.
C28_TruncatesToMaxLen ==
  call.fn = "TruncateDebug" =>
    LET output == Concat(call.pieces) IN
    /\ ret.returned = "Ok"
    /\ ret.out = IF Len(output) > call.max_len
                 THEN SubSeq(output, 1, call.max_len) \o << 46, 46, 46 >>
                 ELSE output

\* C29: ErrorChainDisplay writes the message of the error and then, for each
\* cause of its chain in order, ': ' and the message of the cause, and
\* nothing else.
C29_ChainWrittenOnce ==
  call.fn = "ErrorChainDisplay" =>
    /\ Len(ret.out) = 2 * Len(call.error) - 1
    /\ \A k \in 1..Len(call.error) : ret.out[2 * k - 1] = call.error[k]
    /\ \A k \in 1..(Len(call.error) - 1) : ret.out[2 * k] = ": "

\* The chain of the test of the source was written.
C29_Witness ==
  /\ call.fn = "ErrorChainDisplay"
  /\ call.error = << "v3", "v2", "v" >>
  /\ ret.out = << "v3", ": ", "v2", ": ", "v" >>

C36_AttemptsAreAtomic ==
  [][ \A a \in Slots :
        LET n == alloc[a].node
            u == req[a].user
            sign == IF pc'[a] = "live" THEN 1 ELSE -1
        IN /\ ((pc'[a] # pc[a] \/ remains'[a] # remains[a]) /\ pc'[a] \notin {"live", "released"}) =>
                 UNCHANGED << balance, allocated_fee, compute_load, memory_load >>
           /\ (pc'[a] # pc[a] /\ pc'[a] \in {"live", "released"}) =>
                 /\ compute_load' = [compute_load EXCEPT ![n] = @ + sign * alloc[a].compute]
                 /\ memory_load' = [memory_load EXCEPT ![n] = @ + sign * alloc[a].memory]
                 /\ allocated_fee' = [allocated_fee EXCEPT ![u] = @ + sign * alloc[a].fee] ]_vars

\* C37: an Allocation is dropped once and released at most once: a dropped
\* handle is never live again, a release attempt starts only at the drop or
\* after an attempt that did not commit, a released handle stays released,
\* and the commits of a handle never take from a node or a user more than
\* they added: the release that commits takes exactly what was added.
C37_ReleasedAtMostOnce ==
  /\ [](\A a \in Slots :
          /\ \A n \in Nodes : effect[a].compute[n] >= 0 /\ effect[a].memory[n] >= 0
          /\ \A u \in Users : effect[a].fee[u] >= 0)
  /\ [][ \A a \in Slots :
          /\ pc[a] \in {"dropped", "dealloc_tx", "dealloc_failed", "released"} =>
                pc'[a] \in {"dropped", "dealloc_tx", "dealloc_failed", "released"}
          /\ (pc'[a] = "dropped" /\ pc[a] # "dropped") => pc[a] \in {"live", "dealloc_tx"}
          /\ pc[a] = "released" => pc'[a] = "released"
          /\ (pc'[a] = "released" /\ pc[a] # "released") =>
                /\ pc[a] = "dealloc_tx"
                /\ effect'[a] = NoEffect ]_vars

\* A release has committed at its second attempt.
C37_Witness ==
  \E a \in Slots :
    /\ pc[a] = "dealloc_tx"
    /\ remains[a] = DeallocateAttempts - 1
    /\ ~SerializationFailure(tx[a])

\* C31: the drop of an Allocation changes no row and opens no transaction, it
\* only starts the release; the release makes another attempt only after a
\* serialization failure and while attempts remain of its 10000; an attempt
\* that ends in any other error ends the release; and a release whose
\* attempts do not all fail with a serialization failure, and that meets no
\* other error, commits in the end.
C31_ReleaseRetriesUntilCommitted ==
  /\ [][ \A a \in Slots :
          /\ (pc[a] = "live" /\ pc'[a] = "dropped") =>
                /\ UNCHANGED << balance, allocated_fee, compute_load, memory_load, tx >>
                /\ remains'[a] = DeallocateAttempts
          /\ (pc[a] = "dealloc_tx" /\ pc'[a] = "dropped") =>
                /\ SerializationFailure(tx[a])
                /\ remains'[a] = remains[a] - 1
                /\ remains'[a] > 0
                /\ UNCHANGED << balance, allocated_fee, compute_load, memory_load >>
          /\ (pc[a] = "dealloc_tx" /\ pc'[a] = "dealloc_failed") =>
                /\ \/ err'[a] # "SerializationFailure"
                   \/ SerializationFailure(tx[a]) /\ remains'[a] = 0
                /\ UNCHANGED << balance, allocated_fee, compute_load, memory_load >>
          /\ pc[a] = "dealloc_failed" => pc'[a] = "dealloc_failed" ]_vars
  /\ \A a \in Slots :
        (pc[a] = "dropped") ~>
          \/ pc[a] = "released"
          \/ pc[a] = "dealloc_failed" /\ err[a] # "SerializationFailure"
          \/ pc[a] = "dealloc_failed" /\ remains[a] = 0

\* A release is at its second attempt, the first having met a serialization
\* failure, while another release has ended on an error of the store.
C31_Witness ==
  \E a, b \in Slots :
    /\ pc[a] = "dropped"
    /\ remains[a] = DeallocateAttempts - 1
    /\ pc[b] = "dealloc_failed"
    /\ err[b] = "Postgres"

C38_HeadRoomInRange ==
  p_pc = "meter" =>
    /\ frames_consumed <= pushed
    /\ pushed - frames_consumed <= RING_BUFFER_CAPACITY

C33_BadFrameEndsTheSession ==
  /\ [][ /\ (w_pc = "open" /\ w_pc' = "unread" /\ DispatcherAlive) =>
              seg_chan' = Append(seg_chan, InternalError)
         /\ w_pc # "open" => (seg_chan' = seg_chan \/ seg_chan' = Tail(seg_chan))
         /\ Takes("Error") =>
              /\ d_pc' = "done"
              /\ client_sink' = "closed"
              /\ records' = records
              /\ prompts' = prompts
              /\ limit_chan' = limit_chan
         /\ d_pc = "done" => (d_pc' = "done" /\ records' = records /\ client_sink' = "closed") ]_vars
  /\ [](\A i \in 1..Len(seg_chan) :
          seg_chan[i].kind = "Error" => (i = Len(seg_chan) /\ w_pc \in {"unread", "closed"}))

\* The record of one Speech segment was sent, then the dispatcher took the
\* error item of a frame that did not parse and closed the sink, with the
\* client and the processor still there and a segment never looked at.
C33_Witness ==
  /\ d_pc = "done"
  /\ client_sink = "closed"
  /\ w_pc = "unread"
  /\ client = "open"
  /\ ProcessorAlive
  /\ Len(prompts) = 1
  /\ Len(records) = 1
  /\ w_emitted = 1
=============================================================================
